---- MODULE Spec2Model ----
(***************************************************************************)
(* Model of the NHL warehouse pipeline (src/etl/run_pipeline.py): the gold *)
(* rolling-window builder (build_gold_sql / build_gold_for_dataset) and    *)
(* the line-combination resolver (build_lines_ready).                      *)
(*                                                                         *)
(* Text values are sequences of one-character strings, so that the string  *)
(* operations of the code (zfill, slicing, upper, replace, join, sorted)   *)
(* are computed character by character.  A nullable number is <<>> (SQL    *)
(* NULL / pandas NaN) or <<v>>; a rate is <<>> or a reduced fraction       *)
(* <<num, den>> with den > 0.                                              *)
(***************************************************************************)
EXTENDS Integers, Sequences, FiniteSets, TLC

VARIABLES
    stage,        \* the part of the pipeline a behaviour is about, and its position in it
    silver,       \* rows of SILVER_DIR/<dataset>/situation=<s>/*.parquet, in file order
    parts,        \* number of regular part files in that directory
    hasPlayoffgame, \* the files have a playoffgame column
    strict,       \* STRICT_ROLLING
    gold,         \* season -> rows of GOLD_DIR/<dataset>/situation=<s>/season=<y>/part_00000.parquet
    lines,        \* silver rows of the line-game datasets for one (situation, season)
    linesGame,    \* rows of SILVER_DIR/lines_game_ready/situation=<s>/part_season_<y>.parquet
    linesRoll,    \* rows of GOLD_DIR/lines_season_ready/situation=<s>/season=<y>/part_00000.parquet
    linesGold,    \* rows of GOLD_DIR/lines_game_ready/situation=<s>/season=<y>/part_00000.parquet
    tree,         \* the part files of one dataset in the staging and the persisted directories
    disk,         \* the files and stamps under DATA_ROOT, each named by the run that wrote it
    run,          \* RUN_ID of the process and the step run_pipeline is at
    results,      \* results["steps"], the stage manifests and the gold counters of the run
    bronzeDf,     \* the rows of one bronze part file read by the silver stage
    silverDf,     \* the rows standardize_columns returns for it
    silverOut,    \* directory -> rows of the silver part file written for the bronze part
    fnIn,         \* the argument a function of the pipeline is called with
    fnOut         \* the values it returned, call after call

vars == <<stage, silver, parts, hasPlayoffgame, strict, gold, lines, linesGame, linesRoll,
          linesGold, tree, disk, run, results, bronzeDf, silverDf, silverOut, fnIn, fnOut>>
runVars == <<disk, run, results>>
stdVars == <<bronzeDf, silverDf, silverOut>>
fnVars == <<fnIn, fnOut>>

(***************************************************************************)
(* Bounds of the model.                                                    *)
(***************************************************************************)
PartRows == 7     \* rows of one regular silver part file
MaxParts == 3     \* regular part files in the situation directory
MaxOdd   == 1     \* irregular rows in the leading part file
MaxLines == 2     \* line-game rows of one (situation, season)
MaxRuns  == 2     \* runs of the pipeline on the same data directory
MaxStd   == 2     \* rows of one bronze part file
MaxTeamLen == 3   \* characters of a team value
MaxPieces == 4    \* pieces a composite line id is put together from

(***************************************************************************)
(* Values.                                                                 *)
(***************************************************************************)
NULL == <<>>
\* a file that does not exist, and a file holding rows
NoFile == <<>>
File(rows) == <<rows>>
Rows(f) == f[1]
IsNull(x) == x = NULL
Some(v) == <<v>>
Val(x) == x[1]

Max(a, b) == IF a >= b THEN a ELSE b
Min(a, b) == IF a <= b THEN a ELSE b
Abs(a) == IF a < 0 THEN 0 - a ELSE a

RECURSIVE Gcd(_, _)
Gcd(a, b) == IF b = 0 THEN a ELSE Gcd(b, a % b)

\* n / d as a reduced fraction with a positive denominator, d # 0
Frac(n, d) ==
    LET g == Gcd(Abs(n), Abs(d))
        sgn == IF d < 0 THEN 0 - 1 ELSE 1
    IN  <<(sgn * n) \div g, Abs(d) \div g>>

(***************************************************************************)
(* Characters and strings.                                                 *)
(***************************************************************************)
UpperChars ==
    <<"A", "B", "C", "D", "E", "F", "G", "H", "I", "J", "K", "L", "M",
      "N", "O", "P", "Q", "R", "S", "T", "U", "V", "W", "X", "Y", "Z">>
LowerChars ==
    <<"a", "b", "c", "d", "e", "f", "g", "h", "i", "j", "k", "l", "m",
      "n", "o", "p", "q", "r", "s", "t", "u", "v", "w", "x", "y", "z">>

\* the characters the model uses, in code-point order
Alphabet ==
    <<" ", "-", ".", "0", "1", "2", "3", "4", "5", "6", "7", "8", "9">>
    \o UpperChars \o <<"_">> \o LowerChars

Ord(c) == CHOOSE i \in 1..Len(Alphabet) : Alphabet[i] = c

\* str.lower and str.upper on one character
LowerChar(c) ==
    IF \E i \in 1..Len(UpperChars) : UpperChars[i] = c
    THEN LowerChars[CHOOSE i \in 1..Len(UpperChars) : UpperChars[i] = c]
    ELSE c
UpperChar(c) ==
    IF \E i \in 1..Len(LowerChars) : LowerChars[i] = c
    THEN UpperChars[CHOOSE i \in 1..Len(LowerChars) : LowerChars[i] = c]
    ELSE c
Lower(s) == [i \in 1..Len(s) |-> LowerChar(s[i])]
Upper(s) == [i \in 1..Len(s) |-> UpperChar(s[i])]

DigitChars == <<"0", "1", "2", "3", "4", "5", "6", "7", "8", "9">>
IsDigit(c) == \E i \in 1..10 : DigitChars[i] = c

\* s < t in the lexicographic order of code points (Python str, SQL VARCHAR)
RECURSIVE StrLess(_, _)
StrLess(s, t) ==
    IF t = <<>> THEN FALSE
    ELSE IF s = <<>> THEN TRUE
    ELSE IF Head(s) = Head(t) THEN StrLess(Tail(s), Tail(t))
    ELSE Ord(Head(s)) < Ord(Head(t))

\* n copies of the character c
Repeat(c, n) == [i \in 1..n |-> c]

\* Python s[a:b] with 0 <= a <= b (0-based, end exclusive, clipped to the string)
Slice(s, a, b) == SubSeq(s, a + 1, Min(b, Len(s)))

(***************************************************************************)
(* Regular-season predicate, SQL form (gold stage).                        *)
(***************************************************************************)
\* no padding of a short string
LPad_NoPad(s, n) == SubSeq(s, 1, Min(n, Len(s)))
\* lpad(s, n, '0'): pads on the left, and truncates a longer string to n
LPad(s, n) ==
    IF Len(s) >= n THEN SubSeq(s, 1, n) ELSE Repeat("0", n - Len(s)) \o s

\* substr(s, start, len), 1-based
Substr(s, start, len) == SubSeq(s, start, Min(start + len - 1, Len(s)))

\* CAST(x AS INTEGER) of a number n/d: the nearest integer (no number of the
\* model lies half-way between two integers; such a tie goes to the even one)
cast_integer(q) ==
    LET fl == q[1] \div q[2]
        twice == 2 * (q[1] - fl * q[2])
    IN  IF twice < q[2] THEN fl
        ELSE IF twice > q[2] THEN fl + 1
        ELSE IF fl % 2 = 0 THEN fl ELSE fl + 1

\* the row passes  (gametype='02') [AND (coalesce(cast(playoffgame as INTEGER),0)=0)]
\* in a WHERE clause: a NULL comparison rejects the row
rs_predicate_sql(has_playoffgame, r) ==
    /\ ~IsNull(r.gameid)
    /\ Substr(LPad(Val(r.gameid), 10), 5, 2) = <<"0", "2">>
    /\ has_playoffgame =>
          (IF IsNull(r.playoffgame) THEN 0 ELSE cast_integer(Val(r.playoffgame))) = 0

(***************************************************************************)
(* Silver rows of a per-game dataset (one situation directory).            *)
(***************************************************************************)
CurSeason  == 2024      \* CURRENT_SEASON_START
PrevSeason == CurSeason - 1
Seasons == {PrevSeason, CurSeason}
SEASONS_TO_REFRESH == {CurSeason}

Digit(n) == DigitChars[n + 1]

\* a 10-character game id: season, game type, game number
GameId(season, gametype, n) ==
    (IF season = CurSeason THEN <<"2", "0", "2", "4">> ELSE <<"2", "0", "2", "3">>)
    \o gametype \o <<"0", "0", Digit(n \div 10), Digit(n % 10)>>

RS == <<"0", "2">>    \* game type of a regular-season game
PO == <<"0", "3">>    \* game type of a playoff game

\* the day of the i-th regular row: the file order is not the date order
DayOf(i) == 10 + ((i * 7) % 41)

\* the i-th regular row: one skater, one team, the current season
RegularRow(i) ==
    [ playerid |-> "A", team |-> "BOS", situation |-> "5v5", season |-> CurSeason,
      gamedate |-> DayOf(i), gameid |-> GameId(CurSeason, RS, DayOf(i)),
      playoffgame |-> Some(Frac(0, 1)),
      TOI |-> Some(1 + (i % 3)), i_f_goals |-> Some(i % 2) ]

\* the irregular rows that can stand at position n of the leading part file:
\* another partition key, another season, a playoff game, missing or
\* non-positive values (all on an early day), a second game on one day
OddRows(n) ==
    LET r == [RegularRow(1) EXCEPT !.gamedate = n, !.gameid = GameId(CurSeason, RS, n)]
    IN  { [r EXCEPT !.team = "TBL"],
          [r EXCEPT !.season = PrevSeason, !.gameid = GameId(PrevSeason, RS, n)],
          [r EXCEPT !.gameid = GameId(CurSeason, PO, n), !.playoffgame = Some(Frac(1, 1))],
          [r EXCEPT !.playoffgame = Some(Frac(1, 1))],
          [r EXCEPT !.TOI = Some(0)],
          [r EXCEPT !.TOI = NULL, !.i_f_goals = NULL],
          [r EXCEPT !.TOI = Some(0 - 1)],
          [r EXCEPT !.i_f_goals = NULL],
          [r EXCEPT !.gamedate = DayOf(1)] }

\* the row as stored: rid is its position in the directory's files
Stored(r, n, has_playoffgame) ==
    [ rid |-> n, playerid |-> r.playerid, team |-> r.team, situation |-> r.situation,
      season |-> r.season, gamedate |-> r.gamedate, gameid |-> r.gameid,
      playoffgame |-> IF has_playoffgame THEN r.playoffgame ELSE NULL,
      TOI |-> r.TOI, i_f_goals |-> r.i_f_goals ]

(***************************************************************************)
(* GBG_GOLD_SPECS of the modelled dataset (gbg_skaters_current_zip).       *)
(***************************************************************************)
CountCols == {"i_f_goals"}
SumCols == {"TOI"} \cup CountCols
Windows == {5, 10, 20}

\* the PARTITION BY columns
PK(r) == <<r.playerid, r.team, r.situation, r.season>>

RS_ONLY_IN_GOLD == TRUE
FORCE_GOLD_ROLLING == TRUE

(***************************************************************************)
(* SQL evaluation.                                                         *)
(***************************************************************************)
\* sum(col) over a frame: NULLs are skipped, NULL when no value is left
RECURSIVE SqlSumFrom(_, _, _, _)
SqlSumFrom(part, col, lo, hi) ==
    IF lo > hi THEN NULL
    ELSE LET rest == SqlSumFrom(part, col, lo + 1, hi)
             v == part[lo][col]
         IN  IF IsNull(v) THEN rest
             ELSE IF IsNull(rest) THEN v
             ELSE Some(Val(v) + Val(rest))

\* ORDER BY gamedate, gameid
RowLess(a, b) ==
    \/ a.gamedate < b.gamedate
    \/ a.gamedate = b.gamedate /\ StrLess(a.gameid, b.gameid)

RECURSIVE InsertRow(_, _)
InsertRow(r, s) ==
    IF s = <<>> THEN <<r>>
    ELSE IF RowLess(r, Head(s)) THEN <<r>> \o s
    ELSE <<Head(s)>> \o InsertRow(r, Tail(s))

RECURSIVE OrderBy(_)
OrderBy(s) == IF s = <<>> THEN <<>> ELSE InsertRow(Head(s), OrderBy(Tail(s)))

\* first row of the frame ROWS BETWEEN w-1 PRECEDING AND CURRENT ROW
FrameStart(i, w) == Max(1, i - (w - 1))

\* a frame of w preceding rows and the current row: one row too many
wsum_OneTooMany(part, i, col, w) == SqlSumFrom(part, col, Max(1, i - w), i)
wsum(part, i, col, w) == SqlSumFrom(part, col, FrameStart(i, w), i)

\* a count over an unbounded frame
wcnt_Unbounded(part, i, w) == i
wcnt(part, i, w) == i - FrameStart(i, w) + 1
wstd(part, i, col) == SqlSumFrom(part, col, 1, i)

\* a guard against division by zero only: CASE WHEN toi<>0 THEN ...
SqlPer60_NonZero(c, toi) ==
    IF IsNull(toi) THEN NULL
    ELSE IF Val(toi) # 0
         THEN (IF IsNull(c) THEN NULL ELSE Frac(Val(c) * 60, Val(toi)))
         ELSE NULL

\* CASE WHEN toi>0 THEN (c/toi)*60 ELSE NULL END
SqlPer60(c, toi) ==
    IF IsNull(toi) THEN NULL
    ELSE IF Val(toi) > 0
         THEN (IF IsNull(c) THEN NULL ELSE Frac(Val(c) * 60, Val(toi)))
         ELSE NULL

\* inner_select: SELECT *, <window expressions> FROM base   (row i of its partition)
InnerRow(part, i) ==
    [ base   |-> part[i],
      L      |-> [c \in SumCols |-> [w \in Windows |-> wsum(part, i, c, w)]],
      GP_L   |-> [w \in Windows |-> wcnt(part, i, w)],
      STD    |-> [c \in SumCols |-> wstd(part, i, c)] ]

\* outer_select: SELECT base_cols.*, <outer expressions> FROM base_cols.
\* Every name in an outer expression is a column of base_cols.
OuterRow(b, isStrict) ==
    [ base_cols |-> b,
      L         |-> [c \in SumCols |-> [w \in Windows |->
                        IF isStrict
                        THEN (IF b.GP_L[w] = w THEN b.L[c][w] ELSE NULL)
                        ELSE b.L[c][w]]],
      STD       |-> [c \in SumCols |-> b.STD[c]],
      GP_L      |-> [w \in Windows |-> b.GP_L[w]],
      per60     |-> [c \in CountCols |-> SqlPer60(b.base[c], b.base.TOI)],
      per60_L   |-> [c \in CountCols |-> [w \in Windows |->
                        SqlPer60(b.L[c][w], b.L["TOI"][w])]],
      per60_STD |-> [c \in CountCols |-> SqlPer60(b.STD[c], b.STD["TOI"])] ]

build_gold_sql(part, i, isStrict) == OuterRow(InnerRow(part, i), isStrict)

\* the base CTE of one season: WHERE season = <season> AND <rs predicate>
\* (a silver row of this dataset always has a game id)
Base(rows, season, has_playoffgame) ==
    SelectSeq(rows, LAMBDA r :
        /\ r.season = season
        /\ RS_ONLY_IN_GOLD =>
              rs_predicate_sql(has_playoffgame, [r EXCEPT !.gameid = Some(r.gameid)]))

\* the rows of the base with the partition key pk, in window order
Partition(base, pk) == OrderBy(SelectSeq(base, LAMBDA r : PK(r) = pk))

\* the rows the COPY statement writes for one season
GoldQuery(rows, season, has_playoffgame, isStrict) ==
    LET base == Base(rows, season, has_playoffgame)
        pks  == {PK(base[j]) : j \in 1..Len(base)}
        Out(pk) == LET part == Partition(base, pk)
                   IN  {build_gold_sql(part, i, isStrict) : i \in 1..Len(part)}
    IN  UNION {Out(pk) : pk \in pks}

\* every partition is refreshed
should_refresh_gold_partition_Always(season, is_rolling, force) == TRUE

should_refresh_gold_partition(season, is_rolling, force) ==
    \/ force
    \/ is_rolling /\ season \in SEASONS_TO_REFRESH

(***************************************************************************)
(* Actions of the silver and gold stages.                                  *)
(***************************************************************************)
lineVars == <<lines, linesGame, linesRoll, linesGold>>

\* an irregular row arrives in the leading part file
AppendOdd ==
    /\ stage = "silver"
    /\ parts = 0
    /\ Len(silver) < MaxOdd
    /\ \E r \in OddRows(Len(silver) + 1) :
          silver' = Append(silver, Stored(r, Len(silver) + 1, hasPlayoffgame))
    /\ UNCHANGED <<stage, parts, hasPlayoffgame, strict, gold, lineVars, runVars, stdVars, fnVars, tree>>

\* the silver stage writes the next regular part file
AppendPart ==
    /\ stage = "silver"
    /\ parts < MaxParts
    /\ silver' = silver \o [j \in 1..PartRows |->
                      Stored(RegularRow(parts * PartRows + j), Len(silver) + j,
                             hasPlayoffgame)]
    /\ parts' = parts + 1
    /\ UNCHANGED <<stage, hasPlayoffgame, strict, gold, lineVars, runVars, stdVars, fnVars, tree>>

\* build_gold_for_dataset, for the situation directory: every season found in
\* the files is rebuilt when its output is missing or a refresh is due
BuildGold ==
    /\ stage = "silver"
    /\ LET seasons == {silver[j].season : j \in 1..Len(silver)}
           need(s) == \/ gold[s] = NoFile
                      \/ should_refresh_gold_partition(s, TRUE, FORCE_GOLD_ROLLING)
       IN  gold' = [s \in Seasons |->
                      IF s \in seasons /\ need(s)
                      THEN File(GoldQuery(silver, s, hasPlayoffgame, strict))
                      ELSE gold[s]]
    /\ stage' = "gold"
    /\ UNCHANGED <<silver, parts, hasPlayoffgame, strict, lineVars, runVars, stdVars, fnVars, tree>>

(***************************************************************************)
(* Team canonicalisation and the regular-season mask on data frames.       *)
(***************************************************************************)
RECURSIVE Remove(_, _)
\* str.replace(c, "") for a single character c
Remove(s, c) ==
    IF s = <<>> THEN <<>>
    ELSE IF Head(s) = c THEN Remove(Tail(s), c)
    ELSE <<Head(s)>> \o Remove(Tail(s), c)

\* the characters str.strip() removes at both ends: the blank and the other
\* white space, of which the model has the tab
Whitespace == {" ", "\t"}

RECURSIVE LStrip(_)
LStrip(s) == IF s # <<>> /\ Head(s) \in Whitespace THEN LStrip(Tail(s)) ELSE s
RECURSIVE RStrip(_)
RStrip(s) ==
    IF s # <<>> /\ s[Len(s)] \in Whitespace THEN RStrip(SubSeq(s, 1, Len(s) - 1)) ELSE s
Strip(s) == RStrip(LStrip(s))

TEAM_MAP ==
    << <<<<"T", ".", "B">>, <<"T", "B", "L">>>>,
       <<<<"T", "B">>, <<"T", "B", "L">>>>,
       <<<<"T", "B", "L">>, <<"T", "B", "L">>>>,
       <<<<"L", ".", "A">>, <<"L", "A", "K">>>>,
       <<<<"L", "A">>, <<"L", "A", "K">>>>,
       <<<<"L", "A", "K">>, <<"L", "A", "K">>>>,
       <<<<"N", ".", "J">>, <<"N", "J", "D">>>>,
       <<<<"N", "J">>, <<"N", "J", "D">>>>,
       <<<<"N", "J", "D">>, <<"N", "J", "D">>>>,
       <<<<"S", ".", "J">>, <<"S", "J", "S">>>>,
       <<<<"S", "J">>, <<"S", "J", "S">>>>,
       <<<<"S", "J", "S">>, <<"S", "J", "S">>>>,
       <<<<"P", "H", "X">>, <<"A", "R", "I">>>> >>

\* TEAM_MAP.get(s, s)
TeamMapGet(s) ==
    IF \E i \in 1..Len(TEAM_MAP) : TEAM_MAP[i][1] = s
    THEN TEAM_MAP[CHOOSE i \in 1..Len(TEAM_MAP) : TEAM_MAP[i][1] = s][2]
    ELSE s

canon_team(x) ==
    IF IsNull(x) THEN x
    ELSE Some(TeamMapGet(Remove(Remove(Upper(Strip(Val(x))), "."), " ")))

\* str.zfill(n) on a string without a sign
ZFill(s, n) == IF Len(s) >= n THEN s ELSE Repeat("0", n - Len(s)) \o s

\* astype(int) of a number n/d: the fraction is cut off, toward zero
astype_int(q) ==
    IF q[1] >= 0 THEN q[1] \div q[2] ELSE 0 - ((0 - q[1]) \div q[2])

\* the mask reads the playoff flag only
rs_predicate_mask_from_df_FlagOnly(has_playoffgame, r) ==
    has_playoffgame =>
       (IF IsNull(r.playoffgame) THEN 0 ELSE astype_int(Val(r.playoffgame))) = 0

\* one row of rs_predicate_mask_from_df; a missing game id gives False
rs_predicate_mask_from_df(has_playoffgame, r) ==
    /\ ~IsNull(r.gameid)
    /\ Slice(ZFill(Val(r.gameid), 10), 4, 6) = <<"0", "2">>
    /\ has_playoffgame =>
          (IF IsNull(r.playoffgame) THEN 0 ELSE astype_int(Val(r.playoffgame))) = 0

(***************************************************************************)
(* decode_lineid.                                                          *)
(***************************************************************************)
IdLen == 7      \* the pattern 8\d{6} matches seven characters

RECURSIVE RemoveDotZero(_)
\* str.replace(".0", "")
RemoveDotZero(s) ==
    IF s = <<>> THEN <<>>
    ELSE IF Len(s) >= 2 /\ s[1] = "." /\ s[2] = "0" THEN RemoveDotZero(SubSeq(s, 3, Len(s)))
    ELSE <<Head(s)>> \o RemoveDotZero(Tail(s))

\* the pattern 8\d{6} matches at the start of s
MatchesId(s) ==
    /\ Len(s) >= IdLen
    /\ s[1] = "8"
    /\ \A i \in 2..IdLen : IsDigit(s[i])

RECURSIVE FindAll(_)
\* _id_pat.findall(s): the non-overlapping matches, left to right
FindAll(s) ==
    IF s = <<>> THEN <<>>
    ELSE IF MatchesId(s)
         THEN <<SubSeq(s, 1, IdLen)>> \o FindAll(SubSeq(s, IdLen + 1, Len(s)))
         ELSE FindAll(Tail(s))

InSeq(x, q) == \E i \in 1..Len(q) : q[i] = x

RECURSIVE Distinct(_, _)
\* the elements of ids that are not in out, appended to out in order
Distinct(ids, out) ==
    IF ids = <<>> THEN out
    ELSE Distinct(Tail(ids), IF InSeq(Head(ids), out) THEN out ELSE Append(out, Head(ids)))

\* repeated ids are kept
decode_lineid_NoDedupe(lineid_val) ==
    IF IsNull(lineid_val) THEN <<>>
    ELSE LET out == FindAll(RemoveDotZero(Val(lineid_val)))
         IN  SubSeq(out, 1, Min(3, Len(out)))

\* decode_lineid: the distinct matches in order of appearance, at most three
decode_lineid(lineid_val) ==
    IF IsNull(lineid_val) THEN <<>>
    ELSE LET out == Distinct(FindAll(RemoveDotZero(Val(lineid_val))), <<>>)
         IN  SubSeq(out, 1, Min(3, Len(out)))

(***************************************************************************)
(* build_lines_ready: the decorated row and the season rollup.             *)
(***************************************************************************)
RECURSIVE InsertStr(_, _)
InsertStr(x, q) ==
    IF q = <<>> THEN <<x>>
    ELSE IF StrLess(x, Head(q)) THEN <<x>> \o q
    ELSE <<Head(q)>> \o InsertStr(x, Tail(q))

RECURSIVE Sorted(_)
\* sorted(list of str)
Sorted(q) == IF q = <<>> THEN <<>> ELSE InsertStr(Head(q), Sorted(Tail(q)))

RECURSIVE Join(_, _)
\* sep.join(q)
Join(sep, q) ==
    IF q = <<>> THEN <<>>
    ELSE IF Len(q) = 1 THEN Head(q)
    ELSE Head(q) \o sep \o Join(sep, Tail(q))

\* the ids joined in the order they were decoded
combo_key_ids_Unsorted(p, combo_size_final) ==
    LET ids == SelectSeq(p, LAMBDA x : x # <<>>)
        k == IF combo_size_final \in {2, 3} THEN combo_size_final ELSE Len(ids)
    IN  IF Len(ids) = k /\ k \in {2, 3} THEN Join(<<"-">>, ids) ELSE <<>>

\* _combo_key_ids of a row with the decoded ids p and combo_size_final
combo_key_ids(p, combo_size_final) ==
    LET ids == SelectSeq(p, LAMBDA x : x # <<>>)
        k == IF combo_size_final \in {2, 3} THEN combo_size_final ELSE Len(ids)
    IN  IF Len(ids) = k /\ k \in {2, 3} THEN Join(<<"-">>, Sorted(ids)) ELSE <<>>

\* combo_size_final and mapping_ok from the decoded count and the label
combo_size_final(ids_n, combo_size_label) ==
    LET combo_size_decoded == Max(0, Min(3, ids_n))
    IN  IF combo_size_decoded \in {2, 3} THEN combo_size_decoded ELSE combo_size_label

\* the decoded count compared with the declared size alone
mapping_ok_Label(ids_n, combo_size_label) ==
    combo_size_label = ids_n /\ combo_size_label \in {2, 3}

mapping_ok(ids_n, combo_size_label) ==
    LET final == combo_size_final(ids_n, combo_size_label)
    IN  final = ids_n /\ final \in {2, 3}

\* np.where(TOI > 0, (c / TOI) * 60.0, nan)
PdPer60(c, toi) ==
    IF IsNull(toi) \/ IsNull(c) THEN NULL
    ELSE IF Val(toi) > 0 THEN Frac(Val(c) * 60, Val(toi))
    ELSE NULL

\* four player ids
IdA == <<"8", "4", "7", "1", "2", "1", "4">>
IdB == <<"8", "4", "7", "1", "2", "1", "5">>
IdC == <<"8", "4", "7", "0", "0", "0", "1">>
IdD == <<"8", "4", "8", "0", "0", "0", "2">>

\* pid_to_name of the season: the skaters known by name; .fillna("") otherwise
PidToName(id) ==
    IF id = IdA THEN "Pastrnak"
    ELSE IF id = IdB THEN "Marchand"
    ELSE ""

LINE_COUNT_COLS == {"goalsfor"}

\* the decorated row of one line-game row r
Decorate(r) ==
    LET team      == canon_team(r.team)
        label     == IF Lower(r.position) = <<"p", "a", "i", "r">> THEN 2 ELSE 3
        ids_list  == decode_lineid(r.lineid)
        ids_n     == Len(ids_list)
        p         == [i \in 1..3 |-> IF ids_n >= i THEN ids_list[i] ELSE <<>>]
        final     == combo_size_final(ids_n, label)
        key_ids   == combo_key_ids(p, final)
    IN  [ rid |-> r.rid, lineid |-> r.lineid, gameid |-> r.gameid,
          playoffgame |-> r.playoffgame, season |-> r.season,
          situation |-> r.situation, team |-> team, position |-> r.position,
          TOI |-> r.TOI, goalsfor |-> r.goalsfor,
          xgoalspercentage |-> r.xgoalspercentage,
          combo_size_label |-> label, ids_n |-> ids_n,
          p_id |-> p, p_name |-> [i \in 1..3 |-> PidToName(p[i])],
          combo_size_decoded |-> Max(0, Min(3, ids_n)),
          combo_size_final |-> final,
          mapping_ok |-> mapping_ok(ids_n, label),
          combo_key_ids |-> key_ids,
          combo_key_team |->
              IF Len(key_ids) > 0
              THEN Val(team) \o <<"_", "_">> \o Lower(r.position) \o <<"_", "_">> \o key_ids
              ELSE <<>>,
          per60 |-> [c \in LINE_COUNT_COLS |-> PdPer60(r[c], r.TOI)] ]

\* the data frame df that is persisted per game: the regular-season rows, decorated
LinesGameFrame(rows) ==
    LET rs == SelectSeq(rows, LAMBDA r : rs_predicate_mask_from_df(TRUE, r))
    IN  [i \in 1..Len(rs) |-> Decorate(rs[i])]

\* every row of the data frame
Agg_All(df) == df

\* the rows that enter the rollup
Agg(df) == SelectSeq(df, LAMBDA d : d.mapping_ok /\ d.combo_key_team # <<>>)

\* the groupby columns and the game id
GCols_PerGame(d) ==
    <<d.season, d.team, d.situation, d.position, d.combo_key_team, d.combo_key_ids,
      Val(d.gameid)>>

\* the groupby columns
GCols(d) == <<d.season, d.team, d.situation, d.position, d.combo_key_team, d.combo_key_ids>>

\* the text columns of a group key; season and situation are the same for
\* every row of the data frame
KeyStrings(gk) == <<Val(gk[2])>> \o SubSeq(gk, 4, Len(gk))

RECURSIVE TupleLess(_, _)
TupleLess(a, b) ==
    IF a = <<>> THEN FALSE
    ELSE IF StrLess(Head(a), Head(b)) THEN TRUE
    ELSE IF Head(a) = Head(b) THEN TupleLess(Tail(a), Tail(b))
    ELSE FALSE

RECURSIVE SortGroups(_)
\* groupby sorts the group keys
SortGroups(S) ==
    IF S = {} THEN <<>>
    ELSE LET m == CHOOSE x \in S :
                      \A y \in S \ {x} : TupleLess(KeyStrings(x), KeyStrings(y))
         IN  <<m>> \o SortGroups(S \ {m})

\* groupby(...).sum() of one column over the rows of a group: NaN is skipped
RECURSIVE PdSum(_, _, _)
PdSum(agg, col, gk) ==
    IF agg = <<>> THEN 0
    ELSE LET d == Head(agg)
             rest == PdSum(Tail(agg), col, gk)
         IN  IF GCols(d) = gk /\ ~IsNull(d[col]) THEN Val(d[col]) + rest ELSE rest

RECURSIVE PdSumProd(_, _, _)
\* (x * w).sum() over the rows of a group, x the column pc and w the time on
\* ice: a product with a missing factor is missing and is skipped
PdSumProd(agg, pc, gk) ==
    IF agg = <<>> THEN 0
    ELSE LET d == Head(agg)
             rest == PdSumProd(Tail(agg), pc, gk)
         IN  IF GCols(d) = gk /\ ~IsNull(d[pc]) /\ ~IsNull(d.TOI)
             THEN Val(d[pc]) * Val(d.TOI) + rest
             ELSE rest

RECURSIVE PdCount(_, _, _)
\* the number of rows of a group with a value in column pc
PdCount(agg, pc, gk) ==
    IF agg = <<>> THEN 0
    ELSE (IF GCols(Head(agg)) = gk /\ ~IsNull(Head(agg)[pc]) THEN 1 ELSE 0)
         + PdCount(Tail(agg), pc, gk)

\* the plain mean of the column over the group
wavg_Mean(agg, pc, gk) ==
    IF PdCount(agg, pc, gk) > 0
    THEN Frac(PdSum(agg, pc, gk), PdCount(agg, pc, gk))
    ELSE NULL

\* wavg(x, w) of one group: (x*w).sum()/den if den and den > 0 else nan
wavg(agg, pc, gk) ==
    LET den == PdSum(agg, "TOI", gk)
    IN  IF den # 0 /\ den > 0 THEN Frac(PdSumProd(agg, pc, gk), den) ELSE NULL

LINE_PCT_COLS == {"xgoalspercentage"}

\* the season rollup of the data frame
Rollup(df) ==
    LET agg == Agg(df)
        groups == SortGroups({GCols(agg[i]) : i \in 1..Len(agg)})
        Row(gk) ==
          [ season |-> gk[1], team |-> gk[2], situation |-> gk[3], position |-> gk[4],
            combo_key_team |-> gk[5], combo_key_ids |-> gk[6],
            TOI |-> Some(PdSum(agg, "TOI", gk)),
            goalsfor |-> Some(PdSum(agg, "goalsfor", gk)),
            pct |-> [pc \in LINE_PCT_COLS |-> wavg(agg, pc, gk)],
            per60 |-> [c \in LINE_COUNT_COLS |->
                         PdPer60(Some(PdSum(agg, c, gk)), Some(PdSum(agg, "TOI", gk)))] ]
    IN  [j \in 1..Len(groups) |-> Row(groups[j])]

(***************************************************************************)
(* Line-game rows of one (situation, season).                              *)
(***************************************************************************)
Pair == <<"P", "a", "i", "r">>
Line == <<"l", "i", "n", "e">>

\* the expected-goal share of the row at position n, in hundredths
Pct(n) == IF n % 2 = 1 THEN 40 + 10 * (n \div 2) ELSE 60

\* the rows that can stand at position n: the same two or three members in
\* either order, a declared size that differs from the decoded one, fewer
\* than two members, and rows with a missing id, a fourth member, another
\* team, a playoff game, no time on ice.  The field members records the set
\* of players the composite id was built from; the program never reads it.
LineRows(n) ==
    LET r == [ lineid |-> Some(IdA \o IdB), members |-> {IdA, IdB}, position |-> Pair,
               team |-> Some(<<"B", "O", "S">>), season |-> CurSeason, situation |-> "5v5",
               gameid |-> Some(GameId(CurSeason, RS, n)), playoffgame |-> Some(Frac(0, 1)),
               TOI |-> Some(5 + 10 * n), goalsfor |-> Some(n),
               xgoalspercentage |-> Some(Pct(n)) ]
    IN  { r,
          [r EXCEPT !.lineid = Some(IdB \o IdA)],
          [r EXCEPT !.position = <<"P", "A", "I", "R">>],
          [r EXCEPT !.lineid = Some(IdA \o IdB \o IdC), !.members = {IdA, IdB, IdC},
                    !.position = Line],
          [r EXCEPT !.lineid = Some(IdC \o IdA \o IdB), !.members = {IdA, IdB, IdC},
                    !.position = Line],
          [r EXCEPT !.lineid = Some(IdA \o IdB \o IdC), !.members = {IdA, IdB, IdC}],
          [r EXCEPT !.position = Line],
          [r EXCEPT !.lineid = Some(IdA), !.members = {IdA}, !.position = Line],
          [r EXCEPT !.lineid = Some(IdA \o IdA), !.members = {IdA}],
          [r EXCEPT !.lineid = NULL, !.members = {}],
          [r EXCEPT !.lineid = Some(IdA \o IdB \o <<".", "0">>)],
          [r EXCEPT !.lineid = Some(IdA \o IdB \o IdC \o IdD),
                    !.members = {IdA, IdB, IdC, IdD}, !.position = Line],
          [r EXCEPT !.team = Some(<<"T", ".", "B">>)],
          [r EXCEPT !.gameid = Some(GameId(CurSeason, PO, n)), !.playoffgame = Some(Frac(1, 1))],
          [r EXCEPT !.TOI = Some(0)],
          [r EXCEPT !.TOI = NULL],
          [r EXCEPT !.xgoalspercentage = NULL],
          [r EXCEPT !.lineid = Some(IdB), !.members = {IdB}, !.position = Line,
                    !.team = Some(<<"T", ".", "B">>),
                    !.gameid = Some(GameId(CurSeason, RS, 1))] }

StoredLine(r, n) ==
    [ rid |-> n, lineid |-> r.lineid, members |-> r.members, position |-> r.position, team |-> r.team,
      season |-> r.season, situation |-> r.situation, gameid |-> r.gameid,
      playoffgame |-> r.playoffgame, TOI |-> r.TOI, goalsfor |-> r.goalsfor,
      xgoalspercentage |-> r.xgoalspercentage ]

goldVars == <<silver, parts, hasPlayoffgame, strict, gold>>

\* the silver stage leaves one more line-game row
AppendLine ==
    /\ stage = "lines"
    /\ Len(lines) < MaxLines
    /\ \E r \in LineRows(Len(lines) + 1) :
          lines' = Append(lines, StoredLine(r, Len(lines) + 1))
    /\ UNCHANGED <<stage, linesGame, linesRoll, linesGold, goldVars, runVars, stdVars, fnVars, tree>>

\* build_lines_ready for the (situation, season): nothing is written when
\* there is no row; otherwise both outputs are written
BuildLinesReady ==
    /\ stage = "lines"
    /\ stage' = "lines_done"
    /\ IF lines = <<>>
       THEN UNCHANGED <<linesGame, linesRoll>>
       ELSE LET df == LinesGameFrame(lines)
            IN  /\ linesGame' = File(df)
                /\ linesRoll' = File(Rollup(df))
    /\ UNCHANGED <<lines, linesGold, goldVars, runVars, stdVars, fnVars, tree>>

(***************************************************************************)
(* Gold windows over the line-game rows (dataset lines_game_ready).        *)
(***************************************************************************)
\* GBG_GOLD_SPECS[LINES_GAME_READY_KEY]: the partition key of a line-game row
LinesPK(d) == <<d.combo_key_team, d.situation, d.season>>

\* ORDER BY gamedate, gameid over line-game rows: every row of a game carries
\* the date of that game and the games are numbered in date order, so the
\* order of two rows is the order of their game ids; rows of one game tie
LineRowLess(a, b) == StrLess(Val(a.gameid), Val(b.gameid))

RECURSIVE InsertLine(_, _)
InsertLine(d, s) ==
    IF s = <<>> THEN <<d>>
    ELSE IF LineRowLess(d, Head(s)) THEN <<d>> \o s
    ELSE <<Head(s)>> \o InsertLine(d, Tail(s))

RECURSIVE OrderLines(_)
OrderLines(s) == IF s = <<>> THEN <<>> ELSE InsertLine(Head(s), OrderLines(Tail(s)))

\* the rows that the scan of sit_dir/*.parquet hands to the query: the rows of
\* the file in the order perm, which the engine is free to choose
Scan(rows, perm) == [i \in 1..Len(rows) |-> rows[perm[i]]]

ScanOrders(rows) ==
    {perm \in [1..Len(rows) -> 1..Len(rows)] :
        \A i, j \in 1..Len(rows) : perm[i] = perm[j] => i = j}

\* the base CTE: WHERE season = <season> AND <pred_rs>
LinesBase(scan, season) ==
    SelectSeq(scan, LAMBDA d :
        /\ d.season = season
        /\ RS_ONLY_IN_GOLD => rs_predicate_sql(TRUE, d))

\* one window partition, in the order a stable sort of the scan gives
LinesPartition(base, pk) == OrderLines(SelectSeq(base, LAMBDA d : LinesPK(d) = pk))

\* row i of a partition with its windows; frame and std_frame name the rows
\* that the trailing and the season-to-date sums aggregate
LinesGoldRow(part, i) ==
    [ rid |-> part[i].rid, pk |-> LinesPK(part[i]),
      frame |-> [w \in Windows |-> {part[j].rid : j \in FrameStart(i, w)..i}],
      std_frame |-> {part[j].rid : j \in 1..i},
      TOI_L |-> [w \in Windows |-> wsum(part, i, "TOI", w)],
      GP_L |-> [w \in Windows |-> wcnt(part, i, w)],
      TOI_STD |-> wstd(part, i, "TOI"),
      goalsfor_L |-> [w \in Windows |-> wsum(part, i, "goalsfor", w)],
      goalsfor_STD |-> wstd(part, i, "goalsfor") ]

LinesGoldQuery(scan, season) ==
    LET base == LinesBase(scan, season)
    IN  UNION { LET part == LinesPartition(base, pk)
                IN  {LinesGoldRow(part, i) : i \in 1..Len(part)} :
                pk \in {LinesPK(base[k]) : k \in 1..Len(base)} }

\* build_gold_for_dataset for lines_game_ready, one (situation, season): the
\* partition is rebuilt from the silver file that build_lines_ready wrote
BuildLinesGold ==
    /\ stage = "lines_done"
    /\ linesGame # NoFile
    /\ stage' = "lines_gold"
    /\ \E perm \in ScanOrders(Rows(linesGame)) :
          linesGold' = File(LinesGoldQuery(Scan(Rows(linesGame), perm), CurSeason))
    /\ UNCHANGED <<lines, linesGame, linesRoll, goldVars, runVars, stdVars, fnVars, tree>>

(***************************************************************************)
(* Part files of one dataset: the staging directories under LOCAL_ROOT and *)
(* the persisted directories BRONZE_DIR/<key> and SILVER_DIR/<key>.  A     *)
(* directory is a function from the relative path of a file to the file: a *)
(* bronze part is named by its index, a silver part by <<situation,        *)
(* index>>.  A file holds the situations of its rows; the number of the    *)
(* rebuild that wrote it stands for its modification time.                 *)
(***************************************************************************)
MaxChunks == 2      \* chunks read from the source CSV by one bronze rebuild, at most
MaxBuilds == 3      \* rebuilds of the dataset, at most

NoTree ==
    [ bronze_stage |-> <<>>, bronze |-> <<>>,
      silver_stage |-> <<>>, silver |-> <<>>, builds |-> 0 ]

\* the situations of the rows of one chunk of the source CSV
ChunkSituations == {{"all"}, {"all", "5v5"}}

\* st_size of a file: it grows with its rows
FileSize(f) == Cardinality(f.sits)

\* sync_tree(src, dst): every file of src is copied over the file of the same
\* relative path in dst, unless that file has the same size and is not
\* older; shutil.copy2 keeps the modification time; no file of dst is removed
sync_tree(src, dst) ==
    [p \in DOMAIN src \cup DOMAIN dst |->
        IF p \in DOMAIN src
        THEN IF /\ p \in DOMAIN dst
                /\ FileSize(src[p]) = FileSize(dst[p])
                /\ src[p].mtime <= dst[p].mtime
             THEN dst[p]
             ELSE src[p]
        ELSE dst[p]]

\* process_csv_to_bronze_parts when the rebuild is due: the staging directory
\* is emptied, one part is written per chunk, the staging directory is synced
process_csv_to_bronze_parts(t, chunks) ==
    LET b == t.builds + 1
        out_local == [part_idx \in 0..(Len(chunks) - 1) |->
                         [mtime |-> b, sits |-> chunks[part_idx + 1]]]
    IN  [t EXCEPT !.builds = b,
                  !.bronze_stage = out_local,
                  !.bronze = sync_tree(out_local, t.bronze)]

\* the index i of a part in enumerate(sorted(bronze_dir.glob("part_*.parquet")))
PartIndex(dir, p) == Cardinality({q \in DOMAIN dir : q < p})

\* silver_build_all for the dataset when the rebuild is due: the staging
\* directory is emptied, every bronze part of the persisted directory is read
\* and written as one part per situation, the staging directory is synced
silver_rebuild(t) ==
    LET b == t.builds + 1
        bronze_parts == t.bronze
        paths == {sp \in {"all", "5v5"} \X {PartIndex(bronze_parts, p) : p \in DOMAIN bronze_parts} :
                    \E p \in DOMAIN bronze_parts :
                        PartIndex(bronze_parts, p) = sp[2] /\ sp[1] \in bronze_parts[p].sits}
        out_local == [sp \in paths |-> [mtime |-> b, sits |-> {sp[1]}]]
    IN  [t EXCEPT !.builds = b,
                  !.silver_stage = out_local,
                  !.silver = sync_tree(out_local, t.silver)]

\* the source CSV has changed (or the force flag is on) and bronze is rebuilt
RebuildBronzeParts ==
    /\ stage = "part_files"
    /\ tree.builds < MaxBuilds
    /\ \E n \in 1..MaxChunks : \E chunks \in [1..n -> ChunkSituations] :
          tree' = process_csv_to_bronze_parts(tree, chunks)
    /\ UNCHANGED <<stage, goldVars, lineVars, runVars, stdVars, fnVars>>

\* silver is rebuilt from the persisted bronze parts
RebuildSilverParts ==
    /\ stage = "part_files"
    /\ tree.builds < MaxBuilds
    /\ DOMAIN tree.bronze # {}
    /\ tree' = silver_rebuild(tree)
    /\ UNCHANGED <<stage, goldVars, lineVars, runVars, stdVars, fnVars>>

(***************************************************************************)
(* The pipeline run: stages, stamps and partition files.  A file is named  *)
(* by the RUN_ID of the run that wrote it, which stands for its size and   *)
(* modification time (0: no file); a stamp holds the name of the file it   *)
(* was written for (0: no stamp).                                          *)
(***************************************************************************)
\* the registry, cut down to a static archive and a rolling flat file
DATASETS == <<"gbg_skaters_hist_zip", "gbg_teams_all">>
DatasetKeys == {DATASETS[i] : i \in 1..Len(DATASETS)}
Kind(key) == IF key = "gbg_skaters_hist_zip" THEN "zip" ELSE "csv"
SourceType(key) == IF key = "gbg_skaters_hist_zip" THEN "static" ELSE "rolling"

\* the datasets of GBG_GOLD_SPECS that are in the registry, in dict order
GBG_GOLD_SPECS == <<"gbg_skaters_hist_zip", "gbg_teams_all">>

\* the seasons found in the silver files of a dataset, in ORDER BY season
SeasonsIn(key) ==
    IF key = "gbg_skaters_hist_zip" THEN <<PrevSeason, CurSeason>> ELSE <<CurSeason>>

\* the gold partitions (dataset, season) of the one situation directory
Partitions ==
    UNION {{<<key, SeasonsIn(key)[i]>> : i \in 1..Len(SeasonsIn(key))} : key \in DatasetKeys}

FORCE_DOWNLOAD_STATIC  == FALSE
FORCE_DOWNLOAD_ROLLING == TRUE
FORCE_EXTRACT          == FALSE
FORCE_BRONZE_STATIC    == FALSE
FORCE_BRONZE_ROLLING   == TRUE
FORCE_SILVER_STATIC    == FALSE
FORCE_SILVER_ROLLING   == TRUE
FORCE_GOLD_STATIC      == FALSE

dataset_force_flags(key) ==
    LET is_rolling == SourceType(key) = "rolling"
    IN  [ force_download |->
              IF is_rolling THEN FORCE_DOWNLOAD_ROLLING ELSE FORCE_DOWNLOAD_STATIC,
          is_rolling |-> is_rolling ]

\* the steps of run_pipeline; every RUN_ toggle of the stages is on
Steps == <<"download", "extract", "bronze", "silver", "lines_ready", "gold">>
StepNames == {Steps[i] : i \in 1..Len(Steps)}

EmptyDisk ==
    [ raw          |-> [k \in DatasetKeys |-> 0],
      csv          |-> [k \in DatasetKeys |-> 0],
      extractStamp |-> [k \in DatasetKeys |-> 0],
      bronze       |-> [k \in DatasetKeys |-> 0],
      bronzeStamp  |-> [k \in DatasetKeys |-> 0],
      silver       |-> [k \in DatasetKeys |-> 0],
      silverStamp  |-> [k \in DatasetKeys |-> 0],
      gold         |-> [p \in Partitions |-> 0],
      goldInput    |-> [p \in Partitions |-> 0],
      goldStamp    |-> [p \in Partitions |-> 0] ]

NoRun == [id |-> 0, next |-> 0]
NoResults ==
    [ steps |-> <<>>, written |-> FALSE, manifest |-> [st \in StepNames |-> NoFile] ]

\* the step returned: results["steps"] gets an ok entry and the stage has
\* written its manifest; after the last step the run log is written
StepOk(res, name, items) ==
    [ steps    |-> Append(res.steps, [step |-> name, status |-> "ok"]),
      written  |-> (name = Steps[Len(Steps)]),
      manifest |-> [res.manifest EXCEPT ![name] = File(items)] ]

\* the step raised: a failed entry, break, and the run log is written
StepFailed(res, name) ==
    [ steps    |-> Append(res.steps, [step |-> name, status |-> "failed"]),
      written  |-> TRUE,
      manifest |-> res.manifest ]

\* the step after the next one is started
NextStep_Skip(i) == IF i >= Len(Steps) - 1 THEN 0 ELSE i + 2

\* the position after a step that returned
NextStep(i) == IF i = Len(Steps) THEN 0 ELSE i + 1

\* download_stream: the file is kept when it is there and no download is
\* forced; otherwise the download succeeds and replaces it, or fails
download_stream(raw, force, outcome, id) ==
    IF raw > 0 /\ ~force THEN [status |-> "skipped_exists", raw |-> raw]
    ELSE IF outcome = "ok" THEN [status |-> "downloaded_requests", raw |-> id]
    ELSE [status |-> "failed", raw |-> raw]

\* extract_zip of one archive
extract_zip(dk, key, overwrite, id) ==
    IF dk.raw[key] = 0 THEN [status |-> "zip_missing", disk |-> dk]
    ELSE IF dk.extractStamp[key] # 0 /\ ~overwrite /\ dk.extractStamp[key] = dk.raw[key]
    THEN [status |-> "skipped_unchanged", disk |-> dk]
    ELSE [status |-> "extracted",
          disk |-> [dk EXCEPT !.csv[key] = id, !.extractStamp[key] = dk.raw[key]]]

RECURSIVE extract_from(_, _, _, _)
\* the loop of extract_all from dataset i on
extract_from(i, dk, items, id) ==
    IF i > Len(DATASETS) THEN [disk |-> dk, items |-> items]
    ELSE LET key == DATASETS[i]
             overwrite == FORCE_EXTRACT
                          \/ (dataset_force_flags(key).is_rolling /\ FORCE_DOWNLOAD_ROLLING)
             res == extract_zip(dk, key, overwrite, id)
         IN  IF Kind(key) # "zip" THEN extract_from(i + 1, dk, items, id)
             ELSE extract_from(i + 1, res.disk,
                               Append(items, [key |-> key, status |-> res.status]), id)

\* every source counts as changed
bronze_needs_rebuild_Always(dk, key, src_csv, force) == TRUE

\* bronze_needs_rebuild: forced, or the stamp's src_meta is not the source
bronze_needs_rebuild(dk, key, src_csv, force) ==
    force \/ dk.bronzeStamp[key] # src_csv

\* the source CSV of a dataset: the flat file or the extracted one
SrcCsv(dk, key) == IF Kind(key) = "csv" THEN dk.raw[key] ELSE dk.csv[key]

RECURSIVE bronze_from(_, _, _, _)
\* the loop of bronze_build_all from dataset i on; find_extracted_csv raises
\* when the extract directory of an archive holds no CSV
bronze_from(i, dk, items, id) ==
    IF i > Len(DATASETS) THEN [disk |-> dk, items |-> items, raised |-> FALSE]
    ELSE LET key == DATASETS[i]
             force == IF dataset_force_flags(key).is_rolling
                      THEN FORCE_BRONZE_ROLLING ELSE FORCE_BRONZE_STATIC
             src_csv == SrcCsv(dk, key)
         IN  IF Kind(key) = "zip" /\ dk.csv[key] = 0
             THEN [disk |-> dk, items |-> items, raised |-> TRUE]
             ELSE IF src_csv = 0
             THEN bronze_from(i + 1, dk,
                              Append(items, [key |-> key, status |-> "missing_src"]), id)
             ELSE IF bronze_needs_rebuild(dk, key, src_csv, force)
             THEN bronze_from(i + 1,
                              [dk EXCEPT !.bronze[key] = id, !.bronzeStamp[key] = src_csv],
                              Append(items, [key |-> key, status |-> "rebuilt"]), id)
             ELSE bronze_from(i + 1, dk,
                              Append(items, [key |-> key, status |-> "skipped_unchanged"]), id)

silver_needs_rebuild(dk, key, force) ==
    force \/ dk.silverStamp[key] # dk.bronzeStamp[key]

RECURSIVE silver_from(_, _, _, _)
\* the loop of silver_build_all from dataset i on
silver_from(i, dk, items, id) ==
    IF i > Len(DATASETS) THEN [disk |-> dk, items |-> items]
    ELSE LET key == DATASETS[i]
             force == IF dataset_force_flags(key).is_rolling
                      THEN FORCE_SILVER_ROLLING ELSE FORCE_SILVER_STATIC
         IN  IF dk.bronze[key] = 0
             THEN silver_from(i + 1, dk,
                              Append(items, [key |-> key, status |-> "missing_bronze"]), id)
             ELSE IF ~silver_needs_rebuild(dk, key, force)
             THEN silver_from(i + 1, dk,
                              Append(items, [key |-> key, status |-> "skipped_unchanged"]), id)
             ELSE silver_from(i + 1,
                              [dk EXCEPT !.silver[key] = id,
                                         !.silverStamp[key] = dk.bronzeStamp[key]],
                              Append(items, [key |-> key, status |-> "rebuilt"]), id)

\* the directory of the whole dataset is removed
remove_partition_Dataset(dk, p) ==
    [dk EXCEPT !.gold = [q \in Partitions |-> IF q[1] = p[1] THEN 0 ELSE @[q]],
               !.goldInput = [q \in Partitions |-> IF q[1] = p[1] THEN 0 ELSE @[q]],
               !.goldStamp = [q \in Partitions |-> IF q[1] = p[1] THEN 0 ELSE @[q]]]

\* shutil.rmtree(out_dir) and mkdir: the directory of the partition is empty
remove_partition(dk, p) ==
    [dk EXCEPT !.gold[p] = 0, !.goldInput[p] = 0, !.goldStamp[p] = 0]

\* the new file is written over the directory as it is: the stamp of an
\* earlier build stays and the rows of the earlier file are kept
rebuild_partition_InPlace(dk, key, p, id) ==
    [dk EXCEPT !.gold[p] = id,
               !.goldInput[p] = IF @ = 0 THEN dk.silver[key] ELSE @,
               !.goldStamp[p] = IF @ = 0 THEN id ELSE @]

\* a successful recomputation: the directory is removed and made anew, the
\* COPY writes part_00000.parquet from the silver files, then the stamp
rebuild_partition(dk, key, p, id) ==
    [remove_partition(dk, p) EXCEPT !.gold[p] = id,
                                    !.goldInput[p] = dk.silver[key],
                                    !.goldStamp[p] = id]

\* the failure is not counted
count_failed_Dropped(cnt) == cnt

\* except Exception: failed += 1
count_failed(cnt) == [cnt EXCEPT !.failed = @ + 1]

RECURSIVE gold_seasons(_, _, _, _, _, _)
\* the season loop of build_gold_for_dataset from season i on.  A partition
\* that is not needed is skipped; a needed one has its directory removed and
\* made anew, then the COPY writes the file and the stamp, or fails (fails:
\* the partitions whose COPY fails in this run) and is counted
gold_seasons(key, i, dk, cnt, fails, id) ==
    IF i > Len(SeasonsIn(key)) THEN [disk |-> dk, cnt |-> cnt]
    ELSE LET season == SeasonsIn(key)[i]
             p == <<key, season>>
             is_rolling == SourceType(key) = "rolling"
             force == IF is_rolling THEN FORCE_GOLD_ROLLING ELSE FORCE_GOLD_STATIC
             need == \/ dk.gold[p] = 0
                     \/ should_refresh_gold_partition(season, is_rolling, force)
         IN  IF ~need
             THEN gold_seasons(key, i + 1, dk,
                               [cnt EXCEPT !.skipped = @ + 1], fails, id)
             ELSE IF p \in fails
             THEN gold_seasons(key, i + 1, remove_partition(dk, p),
                               count_failed(cnt), fails, id)
             ELSE gold_seasons(key, i + 1, rebuild_partition(dk, key, p, id),
                               [cnt EXCEPT !.built = @ + 1], fails, id)

\* build_gold_for_dataset: nothing to do without the silver directory
build_gold_for_dataset(dk, key, fails, id) ==
    IF dk.silver[key] = 0
    THEN [disk |-> dk,
          item |-> [dataset_key |-> key, status |-> "missing_silver"]]
    ELSE LET r == gold_seasons(key, 1, dk, [built |-> 0, skipped |-> 0, failed |-> 0],
                               fails, id)
         IN  [disk |-> r.disk,
              item |-> [dataset_key |-> key, status |-> "ok", built |-> r.cnt.built,
                        skipped |-> r.cnt.skipped, failed |-> r.cnt.failed]]

RECURSIVE gold_from(_, _, _, _, _)
\* the loop of gold_build_all from dataset i on
gold_from(i, dk, items, fails, id) ==
    IF i > Len(GBG_GOLD_SPECS) THEN [disk |-> dk, items |-> items]
    ELSE LET r == build_gold_for_dataset(dk, GBG_GOLD_SPECS[i], fails, id)
         IN  gold_from(i + 1, r.disk, Append(items, r.item), fails, id)

(***************************************************************************)
(* Actions of the pipeline run.                                            *)
(***************************************************************************)
dataVars == <<silver, parts, hasPlayoffgame, strict, gold, lines, linesGame, linesRoll, linesGold>>

AtStep(name) == stage = "run" /\ run.next > 0 /\ Steps[run.next] = name

\* the process starts: a new RUN_ID, the first step is next
StartRun ==
    /\ stage = "run"
    /\ run.next = 0
    /\ run.id < MaxRuns
    /\ run' = [id |-> run.id + 1, next |-> 1]
    /\ results' = NoResults
    /\ UNCHANGED <<stage, disk, dataVars, stdVars, fnVars, tree>>

\* between two runs the archive of the static dataset in RAW_DIR is replaced
RawReplaced ==
    /\ stage = "run"
    /\ run.next = 0
    /\ run.id < MaxRuns
    /\ \E key \in DatasetKeys :
          /\ SourceType(key) = "static"
          /\ disk.raw[key] \in 1..run.id
          /\ disk' = [disk EXCEPT !.raw[key] = run.id + 1]
    /\ UNCHANGED <<stage, run, results, dataVars, stdVars, fnVars, tree>>

\* download_all: every dataset is tried and recorded
DownloadAll ==
    /\ AtStep("download")
    /\ \E outcome \in [DatasetKeys -> {"ok", "failed"}] :
          LET res(key) == download_stream(disk.raw[key],
                                          dataset_force_flags(key).force_download,
                                          outcome[key], run.id)
          IN  /\ disk' = [disk EXCEPT !.raw = [key \in DatasetKeys |-> res(key).raw]]
              /\ results' = StepOk(results, "download",
                                   [i \in 1..Len(DATASETS) |->
                                      [key |-> DATASETS[i], status |-> res(DATASETS[i]).status]])
    /\ run' = [run EXCEPT !.next = NextStep(@)]
    /\ UNCHANGED <<stage, dataVars, stdVars, fnVars, tree>>

\* extract_all
ExtractAll ==
    /\ AtStep("extract")
    /\ LET r == extract_from(1, disk, <<>>, run.id)
       IN  /\ disk' = r.disk
           /\ results' = StepOk(results, "extract", r.items)
    /\ run' = [run EXCEPT !.next = NextStep(@)]
    /\ UNCHANGED <<stage, dataVars, stdVars, fnVars, tree>>

\* bronze_build_all: the stage raises at an archive without an extracted CSV,
\* after the datasets before it were built and without writing its manifest
BronzeBuildAll ==
    /\ AtStep("bronze")
    /\ LET r == bronze_from(1, disk, <<>>, run.id)
       IN  /\ disk' = r.disk
           /\ IF r.raised
              THEN /\ results' = StepFailed(results, "bronze")
                   /\ run' = [run EXCEPT !.next = 0]
              ELSE /\ results' = StepOk(results, "bronze", r.items)
                   /\ run' = [run EXCEPT !.next = NextStep(@)]
    /\ UNCHANGED <<stage, dataVars, stdVars, fnVars, tree>>

\* silver_build_all
SilverBuildAll ==
    /\ AtStep("silver")
    /\ LET r == silver_from(1, disk, <<>>, run.id)
       IN  /\ disk' = r.disk
           /\ results' = StepOk(results, "silver", r.items)
    /\ run' = [run EXCEPT !.next = NextStep(@)]
    /\ UNCHANGED <<stage, dataVars, stdVars, fnVars, tree>>

\* build_lines_ready in the run: it raises FileNotFoundError when no silver
\* skaters parquet is found; the registry has no line dataset, so no
\* (situation, season) is written
LinesReadyStep ==
    /\ AtStep("lines_ready")
    /\ IF disk.silver["gbg_skaters_hist_zip"] = 0
       THEN /\ results' = StepFailed(results, "lines_ready")
            /\ run' = [run EXCEPT !.next = 0]
       ELSE /\ results' = StepOk(results, "lines_ready", <<>>)
            /\ run' = [run EXCEPT !.next = NextStep(@)]
    /\ UNCHANGED <<stage, disk, dataVars, stdVars, fnVars, tree>>

\* gold_build_all; the COPY of at most one partition fails
GoldBuildAll ==
    /\ AtStep("gold")
    /\ \E fails \in {{}} \cup {{p} : p \in Partitions} :
          LET r == gold_from(1, disk, <<>>, fails, run.id)
          IN  /\ disk' = r.disk
              /\ results' = StepOk(results, "gold", r.items)
    /\ run' = [run EXCEPT !.next = NextStep(@)]
    /\ UNCHANGED <<stage, dataVars, stdVars, fnVars, tree>>

(***************************************************************************)
(* The silver stage on one bronze part file: standardize_columns.  The     *)
(* frame is a dataset key, the columns it has among those the function     *)
(* tests for, and its rows.                                                *)
(***************************************************************************)
RS_ONLY_IN_SILVER == TRUE

KEEP_SITUATIONS ==
    {<<"a", "l", "l">>, <<"5", "v", "5">>, <<"5", "o", "n", "4">>, <<"4", "o", "n", "5">>}

\* the dataset keys of the frames: a per-game dataset and a season-level one
StdKeys == {"gbg_teams_all", "season_teams_current"}

\* dataset_key.startswith("gbg_")
StartsWithGbg(key) == key \in {"gbg_skaters_hist_zip", "gbg_teams_all"}

\* rows a bronze part file holds at position n
StdRows(n) ==
    LET r == [ rid |-> n, gameid |-> Some(GameId(CurSeason, RS, n)),
               playoffgame |-> Some(Frac(0, 1)), situation |-> Some(<<"5", "o", "n", "5">>),
               team |-> Some(<<"T", ".", "B">>) ]
    IN  { r,
          [r EXCEPT !.playoffgame = NULL, !.situation = Some(<<" ", "a", "l", "l">>)],
          [r EXCEPT !.gameid = Some(GameId(CurSeason, PO, n)), !.playoffgame = Some(Frac(1, 1))],
          [r EXCEPT !.gameid = Some(GameId(CurSeason, PO, n))],
          [r EXCEPT !.playoffgame = Some(Frac(1, 1))],
          [r EXCEPT !.gameid = NULL],
          [r EXCEPT !.gameid = Some(<<"2", "0", "2", "0", "0", "0", Digit(n)>>)],
          [r EXCEPT !.gameid = Some(<<"2", "0", "3", "0", "0", "0", Digit(n)>>)],
          [r EXCEPT !.gameid = Some(GameId(CurSeason, RS, n) \o <<".", "0">>)],
          [r EXCEPT !.situation = Some(<<"o", "t", "h", "e", "r">>)],
          [r EXCEPT !.situation = NULL] }

\* the legacy tag is not folded
NormSituation_NoFold(x) ==
    IF IsNull(x) THEN <<"<", "N", "A", ">">> ELSE Strip(Val(x))

\* astype(str).str.strip().replace({"5on5": "5v5"}); a missing value becomes
\* a text that is no situation
NormSituation(x) ==
    IF IsNull(x) THEN <<"<", "N", "A", ">">>
    ELSE IF Strip(Val(x)) = <<"5", "o", "n", "5">> THEN <<"5", "v", "5">>
    ELSE Strip(Val(x))

\* standardize_columns on the frame df for the dataset
standardize_columns(df, dataset_key) ==
    LET teams == [i \in 1..Len(df.rows) |->
                    [df.rows[i] EXCEPT !.team = canon_team(@)]]
        norm  == IF "situation" \in df.columns
                 THEN [i \in 1..Len(teams) |->
                         [teams[i] EXCEPT !.situation = Some(NormSituation(@))]]
                 ELSE teams
        kept  == IF "situation" \in df.columns
                 THEN SelectSeq(norm, LAMBDA r : Val(r.situation) \in KEEP_SITUATIONS)
                 ELSE norm
        rs    == IF RS_ONLY_IN_SILVER /\ StartsWithGbg(dataset_key)
                                      /\ "gameid" \in df.columns
                 THEN SelectSeq(kept, LAMBDA r :
                         rs_predicate_mask_from_df("playoffgame" \in df.columns, r))
                 ELSE kept
    IN  rs

\* the directory of a part file written at the root of the dataset
RootDir == <<>>

\* the part files silver_build_all writes for df2: none for an empty frame,
\* one per situation of the frame, or one at the root of the dataset
write_silver_parts(df2, columns) ==
    IF Len(df2) = 0 THEN <<>>
    ELSE IF "situation" \in columns
    THEN [sit \in {Val(df2[i].situation) : i \in 1..Len(df2)} |->
            SelectSeq(df2, LAMBDA r : Val(r.situation) = sit)]
    ELSE [d \in {RootDir} |-> df2]

\* a row is written to the bronze part file
AppendBronzeRow ==
    /\ stage = "bronze_part"
    /\ Len(bronzeDf.rows) < MaxStd
    /\ \E r \in StdRows(Len(bronzeDf.rows) + 1) :
          bronzeDf' = [bronzeDf EXCEPT !.rows = Append(@, r)]
    /\ UNCHANGED <<stage, silverDf, silverOut, dataVars, runVars, fnVars, tree>>

\* silver_build_all on the part: df2 = standardize_columns(df, key)
StandardizePart ==
    /\ stage = "bronze_part"
    /\ stage' = "silver_part"
    /\ LET df2 == standardize_columns(bronzeDf, bronzeDf.dataset_key)
       IN  /\ silverDf' = File(df2)
           /\ silverOut' = write_silver_parts(df2, bronzeDf.columns)
    /\ UNCHANGED <<bronzeDf, dataVars, runVars, fnVars, tree>>

InitStd ==
    /\ stage = "bronze_part"
    /\ silver = <<>>
    /\ parts = 0
    /\ hasPlayoffgame = TRUE
    /\ strict = FALSE
    /\ gold = [s \in Seasons |-> NoFile]
    /\ lines = <<>>
    /\ linesGame = NoFile
    /\ linesRoll = NoFile
    /\ linesGold = NoFile
    /\ tree = NoTree
    /\ disk = EmptyDisk
    /\ run = NoRun
    /\ results = NoResults
    /\ \E key \in StdKeys : \E cols \in SUBSET {"gameid", "playoffgame", "situation"} :
          bronzeDf = [dataset_key |-> key, columns |-> cols, rows |-> <<>>]
    /\ silverDf = NoFile
    /\ silverOut = <<>>
    /\ fnIn = <<>>
    /\ fnOut = <<>>

(***************************************************************************)
(* canon_team called on a value of a team column, and again on its result. *)
(***************************************************************************)
TeamChars == {"t", "B", "L", "P", "H", "X", ".", " ", "\t", "-"}

RECURSIVE TextsUpTo(_, _)
\* the texts of at most n characters of the set
TextsUpTo(chars, n) ==
    IF n = 0 THEN {<<>>}
    ELSE LET shorter == TextsUpTo(chars, n - 1)
         IN  shorter \cup {Append(t, c) : t \in shorter, c \in chars}

\* the values of a team column: missing, or a text
TeamInputs == {NULL} \cup {Some(t) : t \in TextsUpTo(TeamChars, MaxTeamLen)}

\* df[tcol].map(canon_team), and the same once more on what it returned
ApplyCanonTeam ==
    /\ stage = "canon_team"
    /\ Len(fnOut) < 2
    /\ fnOut' = Append(fnOut, canon_team(IF fnOut = <<>> THEN fnIn ELSE fnOut[Len(fnOut)]))
    /\ UNCHANGED <<stage, fnIn, dataVars, runVars, stdVars, tree>>

InitCanon ==
    /\ stage = "canon_team"
    /\ silver = <<>>
    /\ parts = 0
    /\ hasPlayoffgame = TRUE
    /\ strict = FALSE
    /\ gold = [s \in Seasons |-> NoFile]
    /\ lines = <<>>
    /\ linesGame = NoFile
    /\ linesRoll = NoFile
    /\ linesGold = NoFile
    /\ tree = NoTree
    /\ disk = EmptyDisk
    /\ run = NoRun
    /\ results = NoResults
    /\ bronzeDf = <<>>
    /\ silverDf = NoFile
    /\ silverOut = <<>>
    /\ fnIn \in TeamInputs
    /\ fnOut = <<>>

(***************************************************************************)
(* decode_lineid called on a value of the lineid column.                   *)
(***************************************************************************)
\* what a composite id is put together from: player ids, the float suffix
\* and digits that are no player id
IdPieces == {IdA, IdB, IdC, IdD, <<".", "0">>, <<"8", "4">>}

RECURSIVE Composites(_)
\* the texts put together from at most n pieces
Composites(n) ==
    IF n = 0 THEN {<<>>}
    ELSE LET shorter == Composites(n - 1)
         IN  shorter \cup {t \o c : t \in shorter, c \in IdPieces}

LineIdInputs == {NULL} \cup {Some(t) : t \in Composites(MaxPieces)}

\* df["lineid"].map(decode_lineid) on one value
ApplyDecodeLineid ==
    /\ stage = "decode_lineid"
    /\ fnOut = <<>>
    /\ fnOut' = <<decode_lineid(fnIn)>>
    /\ UNCHANGED <<stage, fnIn, dataVars, runVars, stdVars, tree>>

InitDecode ==
    /\ stage = "decode_lineid"
    /\ silver = <<>>
    /\ parts = 0
    /\ hasPlayoffgame = TRUE
    /\ strict = FALSE
    /\ gold = [s \in Seasons |-> NoFile]
    /\ lines = <<>>
    /\ linesGame = NoFile
    /\ linesRoll = NoFile
    /\ linesGold = NoFile
    /\ tree = NoTree
    /\ disk = EmptyDisk
    /\ run = NoRun
    /\ results = NoResults
    /\ bronzeDf = <<>>
    /\ silverDf = NoFile
    /\ silverOut = <<>>
    /\ fnIn \in LineIdInputs
    /\ fnOut = <<>>

(***************************************************************************)
(* download_stream step by step: the test of the target file, the HTTP     *)
(* attempts of the retry loop, the command-line fallback.                  *)
(***************************************************************************)
max_retries == 3

DlStatuses == {"skipped_exists", "downloaded_requests", "downloaded_curl", "failed"}

\* what one pass of the loop body ends with: a non-empty .part file, an
\* empty one, a status that ends the loop, another status, an exception
HttpOutcomes == {"ok", "empty", "http_403", "http_500", "exception"}

\* the loop goes round once more than max_retries
loop_continues_OneMore(attempt) == attempt <= max_retries + 1

\* for attempt in range(1, max_retries + 1)
loop_continues(attempt) == attempt <= max_retries

DlStart(exists) ==
    [pc |-> "check", attempt |-> 0, requests |-> 0, curls |-> 0, got |-> FALSE,
     status |-> "", file |-> IF exists THEN "old" ELSE "none"]

\* if out_path.exists() and st_size > 0 and not force: return skipped_exists
DlCheck ==
    /\ stage = "download_stream"
    /\ fnOut.pc = "check"
    /\ fnOut' = IF fnIn.exists /\ ~fnIn.force
                THEN [fnOut EXCEPT !.pc = "done", !.status = "skipped_exists"]
                ELSE [fnOut EXCEPT !.pc = "loop", !.attempt = 1]
    /\ UNCHANGED <<stage, fnIn, dataVars, runVars, stdVars, tree>>

\* one pass of the retry loop: one GET; a non-empty download returns, 403 and
\* 429 break, everything else sleeps and goes round; the loop ends after
\* max_retries passes
DlAttempt ==
    /\ stage = "download_stream"
    /\ fnOut.pc = "loop"
    /\ loop_continues(fnOut.attempt)
    /\ \E outcome \in HttpOutcomes :
          fnOut' =
             IF outcome = "ok"
             THEN [fnOut EXCEPT !.requests = @ + 1, !.got = TRUE, !.file = "new",
                                !.pc = "done", !.status = "downloaded_requests"]
             ELSE IF outcome = "http_403" \/ ~loop_continues(fnOut.attempt + 1)
             THEN [fnOut EXCEPT !.requests = @ + 1, !.pc = "curl"]
             ELSE [fnOut EXCEPT !.requests = @ + 1, !.attempt = @ + 1]
    /\ UNCHANGED <<stage, fnIn, dataVars, runVars, stdVars, tree>>

\* curl_download, once; curl writes to out_path itself, so a transfer that
\* breaks off may leave a part of the file there
DlCurl ==
    /\ stage = "download_stream"
    /\ fnOut.pc = "curl"
    /\ \E ok \in BOOLEAN :
          IF ok
          THEN fnOut' = [fnOut EXCEPT !.curls = @ + 1, !.file = "new",
                                      !.pc = "done", !.status = "downloaded_curl"]
          ELSE \E left \in {fnOut.file, "partial"} :
                  fnOut' = [fnOut EXCEPT !.curls = @ + 1, !.file = left,
                                         !.pc = "done", !.status = "failed"]
    /\ UNCHANGED <<stage, fnIn, dataVars, runVars, stdVars, tree>>

InitDownload ==
    /\ stage = "download_stream"
    /\ silver = <<>>
    /\ parts = 0
    /\ hasPlayoffgame = TRUE
    /\ strict = FALSE
    /\ gold = [s \in Seasons |-> NoFile]
    /\ lines = <<>>
    /\ linesGame = NoFile
    /\ linesRoll = NoFile
    /\ linesGold = NoFile
    /\ tree = NoTree
    /\ disk = EmptyDisk
    /\ run = NoRun
    /\ results = NoResults
    /\ bronzeDf = <<>>
    /\ silverDf = NoFile
    /\ silverOut = <<>>
    /\ \E exists, force \in BOOLEAN :
          /\ fnIn = [exists |-> exists, force |-> force]
          /\ fnOut = DlStart(exists)

InitRun ==
    /\ stage = "run"
    /\ silver = <<>>
    /\ parts = 0
    /\ hasPlayoffgame = TRUE
    /\ strict = FALSE
    /\ gold = [s \in Seasons |-> NoFile]
    /\ lines = <<>>
    /\ linesGame = NoFile
    /\ linesRoll = NoFile
    /\ linesGold = NoFile
    /\ tree = NoTree
    /\ disk = EmptyDisk
    /\ run = NoRun
    /\ results = NoResults
    /\ bronzeDf = <<>>
    /\ silverDf = NoFile
    /\ silverOut = <<>>
    /\ fnIn = <<>>
    /\ fnOut = <<>>

InitGold ==
    /\ stage = "silver"
    /\ silver = <<>>
    /\ parts = 0
    /\ hasPlayoffgame \in BOOLEAN
    /\ strict \in BOOLEAN
    /\ gold = [s \in Seasons |-> NoFile]
    /\ lines = <<>>
    /\ linesGame = NoFile
    /\ linesRoll = NoFile
    /\ linesGold = NoFile
    /\ tree = NoTree
    /\ disk = EmptyDisk
    /\ run = NoRun
    /\ results = NoResults
    /\ bronzeDf = <<>>
    /\ silverDf = NoFile
    /\ silverOut = <<>>
    /\ fnIn = <<>>
    /\ fnOut = <<>>

InitLines ==
    /\ stage = "lines"
    /\ silver = <<>>
    /\ parts = 0
    /\ hasPlayoffgame = TRUE
    /\ strict = FALSE
    /\ gold = [s \in Seasons |-> NoFile]
    /\ lines = <<>>
    /\ linesGame = NoFile
    /\ linesRoll = NoFile
    /\ linesGold = NoFile
    /\ tree = NoTree
    /\ disk = EmptyDisk
    /\ run = NoRun
    /\ results = NoResults
    /\ bronzeDf = <<>>
    /\ silverDf = NoFile
    /\ silverOut = <<>>
    /\ fnIn = <<>>
    /\ fnOut = <<>>

(***************************************************************************)
(* The two regular-season predicates on one row.                           *)
(***************************************************************************)
MaxIdLead == 5      \* characters of a game id before its game-type digits, at most
MaxIdTail == 6      \* characters of a game id after its game-type digits, at most

\* game ids of 2 to MaxIdLead + 2 + MaxIdTail characters: a lead, two
\* characters that may be the game type, a tail
GameIdTexts ==
    {Repeat(c, k) \o mid \o Repeat("1", t) :
        c \in {"2", "0"}, k \in 0..MaxIdLead,
        mid \in {<<"0", "2">>, <<"0", "3">>, <<"2", "0">>}, t \in 0..MaxIdTail}

GameIdInputs == {NULL} \cup {Some(g) : g \in GameIdTexts}

\* values of the playoff flag: null, 0 and whole numbers other than 0
FlagInputs == {NULL} \cup {Some(Frac(n, 1)) : n \in {0 - 1, 0, 1, 2}}

\* both predicates on the same row: the mask of the silver and lines stages
\* and the WHERE clause of the gold stage
ApplyRsPredicates ==
    /\ stage = "rs_predicate"
    /\ fnOut = <<>>
    /\ fnOut' = <<[mask |-> rs_predicate_mask_from_df(fnIn.has_playoffgame, fnIn.row),
                   sql  |-> rs_predicate_sql(fnIn.has_playoffgame, fnIn.row)]>>
    /\ UNCHANGED <<stage, fnIn, dataVars, runVars, stdVars, tree>>

InitRsPredicate ==
    /\ stage = "rs_predicate"
    /\ silver = <<>>
    /\ parts = 0
    /\ hasPlayoffgame = TRUE
    /\ strict = FALSE
    /\ gold = [s \in Seasons |-> NoFile]
    /\ lines = <<>>
    /\ linesGame = NoFile
    /\ linesRoll = NoFile
    /\ linesGold = NoFile
    /\ tree = NoTree
    /\ disk = EmptyDisk
    /\ run = NoRun
    /\ results = NoResults
    /\ bronzeDf = <<>>
    /\ silverDf = NoFile
    /\ silverOut = <<>>
    /\ \E g \in GameIdInputs : \E has \in BOOLEAN : \E f \in FlagInputs :
          /\ has = FALSE => f = NULL
          /\ fnIn = [has_playoffgame |-> has, row |-> [gameid |-> g, playoffgame |-> f]]
    /\ fnOut = <<>>

InitTree ==
    /\ stage = "part_files"
    /\ silver = <<>>
    /\ parts = 0
    /\ hasPlayoffgame = TRUE
    /\ strict = FALSE
    /\ gold = [s \in Seasons |-> NoFile]
    /\ lines = <<>>
    /\ linesGame = NoFile
    /\ linesRoll = NoFile
    /\ linesGold = NoFile
    /\ tree = NoTree
    /\ disk = EmptyDisk
    /\ run = NoRun
    /\ results = NoResults
    /\ bronzeDf = <<>>
    /\ silverDf = NoFile
    /\ silverOut = <<>>
    /\ fnIn = <<>>
    /\ fnOut = <<>>

\* the data of the gold stage, the data of the line resolver and the run of
\* the pipeline over its files are modelled side by side: a behaviour starts
\* in one of them
Init ==
    \/ InitGold \/ InitLines \/ InitRun \/ InitStd \/ InitCanon \/ InitDecode
    \/ InitDownload \/ InitTree \/ InitRsPredicate

Next ==
    \/ AppendOdd \/ AppendPart \/ BuildGold
    \/ AppendLine \/ BuildLinesReady \/ BuildLinesGold
    \/ StartRun \/ RawReplaced
    \/ DownloadAll \/ ExtractAll \/ BronzeBuildAll \/ SilverBuildAll
    \/ LinesReadyStep \/ GoldBuildAll
    \/ AppendBronzeRow \/ StandardizePart
    \/ ApplyCanonTeam \/ ApplyDecodeLineid
    \/ DlCheck \/ DlAttempt \/ DlCurl
    \/ RebuildBronzeParts \/ RebuildSilverParts
    \/ ApplyRsPredicates

Spec == Init /\ [][Next]_vars

\* every call made by download_stream returns: the GET has a timeout, the
\* sleeps are finite and subprocess.run returns when curl exits
LiveSpec ==
    Spec /\ WF_vars(DlCheck) /\ WF_vars(DlAttempt) /\ WF_vars(DlCurl)

(***************************************************************************)
(* Properties of the gold stage.  The rows are named by rid; the windows   *)
(* are described as sets of rows, not by the order the query sorts them in.*)
(***************************************************************************)
GoldBuilt == stage = "gold"

\* the rows of the directory the query of season s reads
InputRids(s) ==
    LET base == Base(silver, s, hasPlayoffgame)
    IN  {base[j].rid : j \in 1..Len(base)}

\* the rows of j's partition key up to and including j in (date, game id) order
Upto(inp, j) ==
    {l \in inp :
        /\ PK(silver[l]) = PK(silver[j])
        /\ l = j \/ RowLess(silver[l], silver[j])}

\* the sum of the values of column c that are present in the rows S among
\* the first n rows of the directory; null when there is none
RECURSIVE SumUpTo(_, _, _)
SumUpTo(S, c, n) ==
    IF n = 0 THEN NULL
    ELSE LET rest == SumUpTo(S, c, n - 1)
         IN  IF n \notin S \/ IsNull(silver[n][c]) THEN rest
             ELSE IF IsNull(rest) THEN silver[n][c]
             ELSE Some(Val(silver[n][c]) + Val(rest))

SumOver(S, c) == SumUpTo(S, c, Len(silver))

\* k[j] for the first n rows of the directory: the number of rows of j's
\* partition key up to and including j (0 for a row the query does not read)
RECURSIVE ExpectedCountUpTo(_, _)
ExpectedCountUpTo(inp, n) ==
    IF n = 0 THEN <<>>
    ELSE Append(ExpectedCountUpTo(inp, n - 1),
                IF n \in inp THEN Cardinality(Upto(inp, n)) ELSE 0)

ExpectedCount(s) == ExpectedCountUpTo(InputRids(s), Len(silver))

\* what the output of season s has to hold, row by row:
\*   k[j]       the number of rows of j's partition key up to and including j
\*   win[j][w]  the sums over j and the up to w-1 rows before it
\*   std[j]     the sums over j and all rows before it
Expected(s) ==
    LET inp == InputRids(s)
        k   == ExpectedCountUpTo(inp, Len(silver))
        Before(j, n) == {l \in inp : /\ PK(silver[l]) = PK(silver[j])
                                     /\ k[l] <= k[j]
                                     /\ k[j] - k[l] < n}
    IN  [ rids |-> inp,
          k    |-> k,
          win  |-> [j \in inp |-> [w \in Windows |->
                      [c \in SumCols |-> SumOver(Before(j, w), c)]]],
          std  |-> [j \in inp |->
                      [c \in SumCols |-> SumOver(Before(j, k[j]), c)]] ]

\* rate is (stat / toi) * 60, null for a missing or non-positive toi
IsPer60(rate, stat, toi) ==
    IF IsNull(toi) \/ IsNull(stat) THEN IsNull(rate)
    ELSE IF Val(toi) <= 0 THEN IsNull(rate)
    ELSE /\ ~IsNull(rate)
         /\ rate[2] > 0
         /\ rate[1] * Val(toi) = 60 * Val(stat) * rate[2]

\* C1: one output row per input row of the partition; each trailing sum of
\* the window query is the sum over the row and the up to N-1 rows before it
\* in its partition key, each season-to-date sum the sum over the row and all
\* rows before it; the re-projected sums are the same wherever the strict
\* policy does not suppress them.
C1_TrailingSums ==
    \A s \in Seasons : gold[s] # NoFile =>
        LET e == Expected(s)
        IN  /\ Cardinality(Rows(gold[s])) = Cardinality(e.rids)
            /\ {g.base_cols.base.rid : g \in Rows(gold[s])} = e.rids
            /\ \A g \in Rows(gold[s]) :
                 LET j == g.base_cols.base.rid
                 IN  /\ g.base_cols.base = silver[j]
                     /\ \A c \in SumCols :
                          /\ g.base_cols.STD[c] = e.std[j][c]
                          /\ g.STD[c] = e.std[j][c]
                          /\ \A w \in Windows :
                               /\ g.base_cols.L[c][w] = e.win[j][w][c]
                               /\ (~strict \/ e.k[j] >= w)
                                    => g.L[c][w] = e.win[j][w][c]

\* a built partition with a row past its 20th game: the 20-row window has
\* dropped rows that the season-to-date sum still holds
C1_Witness ==
    /\ GoldBuilt /\ gold[CurSeason] # NoFile
    /\ \E g \in Rows(gold[CurSeason]) :
         /\ g.base_cols.L["TOI"][20] # g.base_cols.STD["TOI"]
         /\ g.base_cols.L["TOI"][5] # g.base_cols.L["TOI"][10]
         /\ g.L["i_f_goals"][20] # NULL

\* C2: in both modes the game count of window N is min(N, k), k the number
\* of rows of the partition key up to and including the row; it is a number,
\* never null.
C2_GameCount ==
    \A s \in Seasons : gold[s] # NoFile =>
        LET e == ExpectedCount(s)
        IN  \A g \in Rows(gold[s]) : \A w \in Windows :
               LET k == e[g.base_cols.base.rid]
               IN  /\ g.GP_L[w] = Min(w, k)
                   /\ g.base_cols.GP_L[w] = Min(w, k)

\* a strict build with a row whose count is capped and a row whose is not
C2_Witness ==
    /\ GoldBuilt /\ gold[CurSeason] # NoFile
    /\ strict
    /\ \E g, h \in Rows(gold[CurSeason]) :
         /\ g.GP_L[20] = 20
         /\ Cardinality(Upto(InputRids(CurSeason), g.base_cols.base.rid)) > 20
         /\ h.GP_L[5] < 5

\* C3 (as claimed): under the strict policy every trailing sum of window N
\* that the output row holds is null when the game count is below N; under
\* the partial policy the row holds the sum as computed.
C3_StrictSuppression ==
    \A s \in Seasons : gold[s] # NoFile =>
        \A g \in Rows(gold[s]) : \A c \in SumCols : \A w \in Windows :
            IF strict
            THEN g.GP_L[w] < w => (IsNull(g.L[c][w]) /\ IsNull(g.base_cols.L[c][w]))
            ELSE g.L[c][w] = g.base_cols.L[c][w]

\* C4 (as claimed): under the strict policy the per-60 rate of window N is
\* null when the game count is below N.
C4_StrictRateSuppression ==
    \A s \in Seasons : gold[s] # NoFile =>
        \A g \in Rows(gold[s]) : \A c \in CountCols : \A w \in Windows :
            (strict /\ g.GP_L[w] < w) => IsNull(g.per60_L[c][w])

\* C5 (gold rows): the rate of the current row, of each window and of the
\* season to date is null when its time-on-ice denominator is missing, zero
\* or negative, and (stat / time-on-ice) * 60 otherwise.
GoldPer60Guard ==
    \A s \in Seasons : gold[s] # NoFile =>
        LET e == Expected(s)
        IN  \A g \in Rows(gold[s]) : \A c \in CountCols :
               LET j == g.base_cols.base.rid
               IN  /\ IsPer60(g.per60[c], silver[j][c], silver[j].TOI)
                   /\ IsPer60(g.per60_STD[c], e.std[j][c], e.std[j]["TOI"])
                   /\ \A w \in Windows :
                        IsPer60(g.per60_L[c][w], e.win[j][w][c], e.win[j][w]["TOI"])

\* a gold row whose trailing time on ice is zero or negative has a null
\* window rate, and another row has a rate
C5_Witness ==
    /\ gold[CurSeason] # NoFile
    /\ \E g \in Rows(gold[CurSeason]) : \E w \in Windows :
          /\ ~IsNull(g.base_cols.L["TOI"][w])
          /\ Val(g.base_cols.L["TOI"][w]) <= 0
          /\ IsNull(g.per60_L["i_f_goals"][w])
    /\ \E g \in Rows(gold[CurSeason]) : \E w \in Windows :
          ~IsNull(g.per60_L["i_f_goals"][w])

(***************************************************************************)
(* Properties of the line-combination resolver.                            *)
(***************************************************************************)
LinesBuilt == linesGame # NoFile /\ linesRoll # NoFile

\* the persisted per-game rows and rollup rows
GameRows == Rows(linesGame)
RollRows == Rows(linesRoll)

\* the input row is a regular-season row: game type 02 and no playoff flag
IsRegular(r) ==
    /\ Val(r.gameid)[5] = "0"
    /\ Val(r.gameid)[6] = "2"
    /\ r.playoffgame = Some(Frac(0, 1))

RECURSIVE LineSum(_, _)
\* the sum of column c over the input rows numbered in S, missing values skipped
LineSum(S, c) ==
    IF S = {} THEN 0
    ELSE LET i == CHOOSE x \in S : TRUE
         IN  (IF IsNull(lines[i][c]) THEN 0 ELSE Val(lines[i][c])) + LineSum(S \ {i}, c)

RECURSIVE RollSum(_, _)
\* the sum of column c over the rollup rows
RollSum(roll, c) ==
    IF roll = <<>> THEN 0 ELSE Val(Head(roll)[c]) + RollSum(Tail(roll), c)

\* the (season, team, situation, unit type, combination key) of a row
Group(x) == <<x.season, x.team, x.situation, x.position, x.combo_key_team>>

\* the input rows whose decorated row is mapped, keyed and in the group of x
Members(x) ==
    {GameRows[k].rid : k \in {k \in 1..Len(GameRows) :
        /\ GameRows[k].mapping_ok
        /\ GameRows[k].combo_key_team # <<>>
        /\ Group(GameRows[k]) = Group(x)}}

\* the input rows whose decorated row is mapped and keyed
Mapped ==
    {GameRows[k].rid : k \in {k \in 1..Len(GameRows) :
        GameRows[k].mapping_ok /\ GameRows[k].combo_key_team # <<>>}}

\* C5 (line rows): the game-level rate and the rollup rate are null when the
\* time on ice they divide by is missing, zero or negative, and
\* (stat / time-on-ice) * 60 otherwise.
LinesPer60Guard ==
    LinesBuilt =>
        /\ \A k \in 1..Len(GameRows) : \A c \in LINE_COUNT_COLS :
              LET d == GameRows[k]
              IN  IsPer60(d.per60[c], lines[d.rid][c], lines[d.rid].TOI)
        /\ \A j \in 1..Len(RollRows) : \A c \in LINE_COUNT_COLS :
              IsPer60(RollRows[j].per60[c], RollRows[j][c], RollRows[j].TOI)

\* C5: every per-60 rate (current row, each trailing window, season to date,
\* line-combination game rows and season rollup rows) is null when its
\* time-on-ice denominator is zero, negative or null, and otherwise equals
\* (stat / time-on-ice) * 60.
C5_Per60Guard == GoldPer60Guard /\ LinesPer60Guard

\* the expected unit size given by the declared position
ExpectedSize(position) == IF Lower(position) = <<"p", "a", "i", "r">> THEN 2 ELSE 3

\* C6 (as claimed): mapping_ok is true exactly when the number of decoded
\* member ids equals the expected unit size given by the declared position
\* (2 for a pair, 3 otherwise).
C6_MappingOkByLabel ==
    LinesBuilt =>
        \A k \in 1..Len(GameRows) :
            LET d == GameRows[k]
            IN  d.mapping_ok <=> (d.ids_n = ExpectedSize(lines[d.rid].position))

\* C7: two line-game rows with the same team and unit type whose composite
\* ids hold the same set of 2 or 3 member ids, in any order, get the same
\* combination key, of the form team__unit-type__sorted-dash-joined-ids.
C7_KeySymmetry ==
    LinesBuilt =>
        \A k1, k2 \in 1..Len(GameRows) :
            LET d1 == GameRows[k1]
                d2 == GameRows[k2]
                r1 == lines[d1.rid]
                r2 == lines[d2.rid]
            IN  (/\ r1.team = r2.team
                 /\ r1.position = r2.position
                 /\ r1.members = r2.members
                 /\ Cardinality(r1.members) \in {2, 3})
                =>  /\ d1.combo_key_team = d2.combo_key_team
                    /\ d1.combo_key_team # <<>>
                    /\ (r1.members = {IdA, IdB} /\ r1.position = Pair
                        /\ r1.team = Some(<<"B", "O", "S">>))
                       => d1.combo_key_team =
                            <<"B", "O", "S", "_", "_", "p", "a", "i", "r", "_", "_">>
                            \o IdA \o <<"-">> \o IdB

\* the same pair was recorded in both orders and got one non-empty key
C7_Witness ==
    /\ LinesBuilt
    /\ \E k1, k2 \in 1..Len(GameRows) :
          /\ GameRows[k1].lineid = Some(IdA \o IdB)
          /\ GameRows[k2].lineid = Some(IdB \o IdA)
          /\ GameRows[k1].position = GameRows[k2].position
          /\ GameRows[k1].team = GameRows[k2].team
          /\ GameRows[k1].combo_key_team = GameRows[k2].combo_key_team
          /\ GameRows[k1].combo_key_team # <<>>

\* C8: in the decorated per-game rows the combination key is non-empty
\* exactly for the rows with mapping_ok true.
C8_KeyIffMapped ==
    LinesBuilt =>
        \A k \in 1..Len(GameRows) :
            /\ (GameRows[k].combo_key_team # <<>>) <=> GameRows[k].mapping_ok
            /\ (GameRows[k].combo_key_ids # <<>>) <=> GameRows[k].mapping_ok

\* a mapped row with a key stands next to an unmapped row without one
C8_Witness ==
    /\ LinesBuilt
    /\ \E k \in 1..Len(GameRows) :
          GameRows[k].mapping_ok /\ GameRows[k].combo_key_team # <<>>
    /\ \E k \in 1..Len(GameRows) :
          ~GameRows[k].mapping_ok /\ GameRows[k].combo_key_team = <<>>

\* C9: every regular-season line-game row, mapped or not, is in the
\* persisted per-game output, once; no row with mapping_ok false or an empty
\* key is in the group of a rollup row, and the rollup totals are the totals
\* of the mapped, keyed rows alone.
C9_GameRowsKeptRollupMappedOnly ==
    /\ (stage = "lines_done" /\ lines # <<>>) => LinesBuilt
    /\ LinesBuilt =>
          /\ \A i \in 1..Len(lines) :
                IsRegular(lines[i]) =>
                    Cardinality({k \in 1..Len(GameRows) : GameRows[k].rid = i}) = 1
          /\ \A j \in 1..Len(RollRows) :
                /\ RollRows[j].combo_key_team # <<>>
                /\ \A k \in 1..Len(GameRows) :
                      GCols(GameRows[k]) = GCols(RollRows[j])
                      => GameRows[k].mapping_ok /\ GameRows[k].combo_key_team # <<>>
          /\ RollSum(RollRows, "TOI") = LineSum(Mapped, "TOI")
          /\ RollSum(RollRows, "goalsfor") = LineSum(Mapped, "goalsfor")

\* an unmapped row is persisted and the rollup has a row
C9_Witness ==
    /\ LinesBuilt
    /\ \E k \in 1..Len(GameRows) : ~GameRows[k].mapping_ok
    /\ \E k \in 1..Len(GameRows) : GameRows[k].mapping_ok
    /\ Len(RollRows) = 1

\* C10: the season rollup has one row per (season, team, situation, unit
\* type, combination key) group of mapped rows; its time on ice and counting
\* stats are the sums over the rows of the group and its per-60 rates are
\* recomputed from those sums.
C10_RollupSums ==
    LinesBuilt =>
        /\ \A j \in 1..Len(RollRows) :
              LET ro == RollRows[j]
                  G == Members(ro)
              IN  /\ G # {}
                  /\ ro.TOI = Some(LineSum(G, "TOI"))
                  /\ \A c \in LINE_COUNT_COLS :
                        /\ ro[c] = Some(LineSum(G, c))
                        /\ IsPer60(ro.per60[c], Some(LineSum(G, c)), Some(LineSum(G, "TOI")))
        /\ \A j1, j2 \in 1..Len(RollRows) :
              Group(RollRows[j1]) = Group(RollRows[j2]) => j1 = j2
        /\ \A k \in 1..Len(GameRows) :
              (GameRows[k].mapping_ok /\ GameRows[k].combo_key_team # <<>>)
              => \E j \in 1..Len(RollRows) : Group(RollRows[j]) = Group(GameRows[k])

\* two games of the pair with time on ice 15 and 25 and goals 1 and 2 roll
\* up to time on ice 40, goals 3 and 4.5 goals per 60
C10_Witness ==
    /\ LinesBuilt
    /\ Len(GameRows) = 2
    /\ \E j \in 1..Len(RollRows) :
          /\ RollRows[j].combo_key_ids = IdA \o <<"-">> \o IdB
          /\ RollRows[j].team = Some(<<"B", "O", "S">>)
          /\ RollRows[j].TOI = Some(40)
          /\ RollRows[j].goalsfor = Some(3)
          /\ RollRows[j].per60["goalsfor"] = <<9, 2>>

\* the sum of value * time on ice over the input rows numbered in S, rows
\* with a missing factor skipped
RECURSIVE LineSumProd(_, _)
LineSumProd(S, pc) ==
    IF S = {} THEN 0
    ELSE LET i == CHOOSE x \in S : TRUE
         IN  (IF IsNull(lines[i][pc]) \/ IsNull(lines[i].TOI) THEN 0
              ELSE Val(lines[i][pc]) * Val(lines[i].TOI))
             + LineSumProd(S \ {i}, pc)

\* C11: in the season rollup each percentage-valued column of a group is the
\* time-on-ice-weighted average sum(value * TOI) / sum(TOI) over the rows of
\* the group, and null when sum(TOI) is zero (or negative).
C11_WeightedAverage ==
    LinesBuilt =>
        \A j \in 1..Len(RollRows) : \A pc \in LINE_PCT_COLS :
            LET ro == RollRows[j]
                G == Members(ro)
                den == LineSum(G, "TOI")
                num == LineSumProd(G, pc)
            IN  IF den <= 0 THEN IsNull(ro.pct[pc])
                ELSE /\ ~IsNull(ro.pct[pc])
                     /\ ro.pct[pc][2] > 0
                     /\ ro.pct[pc][1] * den = num * ro.pct[pc][2]

\* two games of one pair with shares 0.40 and 0.60 over 15 and 25 minutes
\* roll up to 0.525, which is neither the sum 1.00 nor the mean 0.50
C11_Witness ==
    /\ LinesBuilt
    /\ \E j \in 1..Len(RollRows) :
          /\ Cardinality(Members(RollRows[j])) = 2
          /\ RollRows[j].TOI = Some(40)
          /\ RollRows[j].pct["xgoalspercentage"] = <<105, 2>>

(***************************************************************************)
(* Properties of the pipeline run.                                         *)
(***************************************************************************)
\* the force flag of the gold stage for the dataset
GoldForced(key) ==
    IF SourceType(key) = "rolling" THEN FORCE_GOLD_ROLLING ELSE FORCE_GOLD_STATIC

\* the item of the dataset in the gold manifest of the run
GoldItem(res, key) ==
    LET items == Rows(res.manifest["gold"])
    IN  items[CHOOSE i \in 1..Len(items) : items[i].dataset_key = key]

\* the gold step is taken
GoldStep == AtStep("gold") /\ run'.next = 0 /\ run'.id = run.id

\* C12: a gold partition whose output file exists, whose dataset is not
\* forced and whose season is not in the refresh set is left as it is, file
\* and stamp, and counted as skipped; an existing partition is recomputed
\* only if its dataset is forced or its season is in the refresh set.
C12_RebuildPolicy ==
    [][ GoldStep =>
          /\ \A season \in Seasons : \A is_rolling, force \in BOOLEAN :
                should_refresh_gold_partition(season, is_rolling, force)
                => (force \/ season \in SEASONS_TO_REFRESH)
          /\ \A key \in DatasetKeys :
             /\ \A i \in 1..Len(SeasonsIn(key)) :
                  LET p == <<key, SeasonsIn(key)[i]>>
                      same == /\ disk'.gold[p] = disk.gold[p]
                              /\ disk'.goldInput[p] = disk.goldInput[p]
                              /\ disk'.goldStamp[p] = disk.goldStamp[p]
                  IN  (disk.silver[key] # 0 /\ disk.gold[p] # 0) =>
                         /\ (~GoldForced(key) /\ p[2] \notin SEASONS_TO_REFRESH) => same
                         /\ ~same => (GoldForced(key) \/ p[2] \in SEASONS_TO_REFRESH)
             /\ (disk.silver[key] # 0 /\ ~GoldForced(key)) =>
                  GoldItem(results', key).skipped >=
                     Cardinality({i \in 1..Len(SeasonsIn(key)) :
                                     /\ disk.gold[<<key, SeasonsIn(key)[i]>>] # 0
                                     /\ SeasonsIn(key)[i] \notin SEASONS_TO_REFRESH})
      ]_vars

\* in the second run a partition of the static dataset still holds the file
\* and stamp of the first run and was counted as skipped, while the forced
\* dataset was rebuilt
C12_Witness ==
    /\ stage = "run" /\ run.id = 2 /\ results.manifest["gold"] # NoFile
    /\ disk.gold[<<"gbg_skaters_hist_zip", PrevSeason>>] = 1
    /\ disk.goldStamp[<<"gbg_skaters_hist_zip", PrevSeason>>] = 1
    /\ GoldItem(results, "gbg_skaters_hist_zip").skipped >= 1
    /\ disk.gold[<<"gbg_teams_all", CurSeason>>] = 2

\* C13: after a successful recomputation of a gold partition its directory
\* holds exactly the output file and the stamp written by that recomputation,
\* made from the silver files as they are now: nothing of an earlier build
\* survives.  The line season rollup is written whole from the frame of the
\* build: one row per group of its mapped rows and no other row.
C13_FullReplace ==
    /\ [][ GoldStep =>
             \A p \in Partitions :
                (disk'.gold[p] # 0 /\ disk'.gold[p] # disk.gold[p]) =>
                    /\ disk'.gold[p] = run.id
                    /\ disk'.goldStamp[p] = run.id
                    /\ disk'.goldInput[p] = disk'.silver[p[1]]
         ]_vars
    /\ [](\A p \in Partitions :
             /\ disk.goldStamp[p] # 0 => disk.goldStamp[p] = disk.gold[p]
             /\ disk.gold[p] = 0 => disk.goldInput[p] = 0)
    /\ [](LinesBuilt =>
             Len(RollRows) =
                Cardinality({Group(GameRows[k]) : k \in {k \in 1..Len(GameRows) :
                    GameRows[k].mapping_ok /\ GameRows[k].combo_key_team # <<>>}}))

\* a partition built in the first run was recomputed in the second: its
\* file and stamp are those of the second run
C13_Witness ==
    /\ stage = "run" /\ run.id = 2 /\ results.manifest["gold"] # NoFile
    /\ GoldItem(results, "gbg_teams_all").status = "ok"
    /\ GoldItem(results, "gbg_teams_all").built = 1
    /\ disk.gold[<<"gbg_teams_all", CurSeason>>] = 2
    /\ disk.goldStamp[<<"gbg_teams_all", CurSeason>>] = 2
    /\ disk.goldInput[<<"gbg_teams_all", CurSeason>>] = 2
    /\ disk.gold[<<"gbg_skaters_hist_zip", CurSeason>>] = 1

\* the partitions of the dataset whose output file carries the tag
PartsWith(key, tag) ==
    {i \in 1..Len(SeasonsIn(key)) : disk.gold[<<key, SeasonsIn(key)[i]>>] = tag}

\* C14: a failed partition computation is caught and counted: the gold stage
\* still ends ok with one manifest item per dataset, in registry order; the
\* other partitions of the dataset and the other datasets are processed; and
\* for every dataset built + skipped + failed is the number of partitions
\* considered, built being the partitions written by this run and failed the
\* partitions left without an output file.
C14_FailureCounted ==
    results.manifest["gold"] # NoFile =>
       LET items == Rows(results.manifest["gold"])
       IN  /\ results.steps[Len(results.steps)] = [step |-> "gold", status |-> "ok"]
           /\ Len(items) = Len(GBG_GOLD_SPECS)
           /\ \A i \in 1..Len(items) :
                LET key == GBG_GOLD_SPECS[i]
                IN  /\ items[i].dataset_key = key
                    /\ items[i].status = "missing_silver" <=> disk.silver[key] = 0
                    /\ items[i].status = "ok" <=> disk.silver[key] # 0
                    /\ items[i].status = "ok" =>
                         /\ items[i].built + items[i].skipped + items[i].failed
                               = Len(SeasonsIn(key))
                         /\ items[i].built = Cardinality(PartsWith(key, run.id))
                         /\ items[i].failed = Cardinality(PartsWith(key, 0))

\* one partition of the first dataset failed; its other partition and the
\* other dataset were built all the same
C14_Witness ==
    /\ stage = "run" /\ results.manifest["gold"] # NoFile
    /\ GoldItem(results, "gbg_skaters_hist_zip").status = "ok"
    /\ GoldItem(results, "gbg_skaters_hist_zip").failed = 1
    /\ GoldItem(results, "gbg_skaters_hist_zip").built = 1
    /\ disk.gold[<<"gbg_skaters_hist_zip", PrevSeason>>] = 0
    /\ disk.gold[<<"gbg_skaters_hist_zip", CurSeason>>] = run.id
    /\ GoldItem(results, "gbg_teams_all").status = "ok"
    /\ GoldItem(results, "gbg_teams_all").built = 1

\* the run log was written and the process is over
RunOver == stage = "run" /\ run.id > 0 /\ run.next = 0 /\ results.written

\* C15: the steps run in the order download, extract, bronze, silver,
\* lines_ready, gold: the entries of the run are a prefix of that list, every
\* entry is ok except possibly the last, a step is started only after all
\* steps before it returned, nothing is started after a failed step, and the
\* run log is written exactly when the list is through or a step failed.
C15_StageOrder ==
    stage = "run" =>
       LET n == Len(results.steps)
       IN  /\ n <= Len(Steps)
           /\ \A i \in 1..n :
                /\ results.steps[i].step = Steps[i]
                /\ results.steps[i].status \in {"ok", "failed"}
                /\ i < n => results.steps[i].status = "ok"
           /\ run.next > 0 =>
                /\ n = run.next - 1
                /\ ~results.written
                /\ \A i \in 1..n : results.steps[i].status = "ok"
           /\ (n > 0 /\ results.steps[n].status = "failed") =>
                run.next = 0 /\ results.written
           /\ results.written <=>
                (n > 0 /\ (n = Len(Steps) \/ results.steps[n].status = "failed"))
           /\ \A i \in 1..Len(Steps) :
                results.manifest[Steps[i]] # NoFile =>
                   i <= n /\ results.steps[i].status = "ok"

\* a run stopped at the third step: the log holds download ok, extract ok,
\* bronze failed, and no later step has an entry or a manifest
C15_Witness ==
    /\ RunOver
    /\ Len(results.steps) = 3
    /\ results.steps[1] = [step |-> "download", status |-> "ok"]
    /\ results.steps[2] = [step |-> "extract", status |-> "ok"]
    /\ results.steps[3] = [step |-> "bronze", status |-> "failed"]
    /\ results.manifest["silver"] = NoFile
    /\ results.manifest["gold"] = NoFile

\* the step taken from this state ended with a failure: the step raised, or
\* the computation of a gold partition failed and was counted
FailureInStep ==
    /\ stage = "run" /\ run.next > 0 /\ run'.id = run.id
    /\ Len(results'.steps) = Len(results.steps) + 1
    /\ \/ results'.steps[Len(results'.steps)].status = "failed"
       \/ /\ results'.manifest["gold"] # NoFile
          /\ \E i \in 1..Len(Rows(results'.manifest["gold"])) :
               LET it == Rows(results'.manifest["gold"])[i]
               IN  it.status = "ok" /\ it.failed > 0

\* C16: a failure of a step or of one partition computation removes no
\* output file: every bronze, silver and gold file that was there before the
\* step is there after it, and a gold file that this run did not write anew
\* is the same file with the same stamp.
C16_FailureKeepsOutputs ==
    [][ FailureInStep =>
          /\ \A key \in DatasetKeys :
                /\ disk.bronze[key] # 0 => disk'.bronze[key] # 0
                /\ disk.silver[key] # 0 => disk'.silver[key] # 0
          /\ \A p \in Partitions :
                disk.gold[p] # 0 =>
                   \/ disk'.gold[p] = disk.gold[p] /\ disk'.goldStamp[p] = disk.goldStamp[p]
                   \/ disk'.gold[p] = run.id /\ disk'.goldStamp[p] = run.id
      ]_vars

\* the stages that read a source of a dataset: the download, the archive,
\* the flat file or the extracted file
SourceSteps == {"download", "extract", "bronze"}

\* C17: an unavailable source of one dataset (failed download, missing flat
\* file, archive without an extracted file) never fails the stage: every
\* entry of download, extract and bronze in the run is ok, and its manifest
\* holds the outcome of every dataset the stage handles.
C17_SourceUnavailableIsLocal ==
    stage = "run" =>
       \A i \in 1..Len(results.steps) :
          results.steps[i].step \in SourceSteps =>
             /\ results.steps[i].status = "ok"
             /\ results.manifest[results.steps[i].step] # NoFile
             /\ LET items == Rows(results.manifest[results.steps[i].step])
                    handled == IF results.steps[i].step = "extract"
                               THEN {key \in DatasetKeys : Kind(key) = "zip"}
                               ELSE DatasetKeys
                IN  {items[j].key : j \in 1..Len(items)} = handled

\* a run went through all its steps
RunComplete ==
    /\ RunOver
    /\ Len(results.steps) = Len(Steps)
    /\ results.steps[Len(Steps)].status = "ok"

\* C18: change detection follows the upstream input through bronze, silver
\* and gold.  After a complete run the bronze output of a dataset was built
\* for the source file that is there, the silver stamp records the source
\* recorded in the bronze stamp, and every gold partition that has an output
\* file was computed from the silver output that is there: an upstream
\* change is followed by a rebuild without any force flag.
C18_UpstreamChangeRebuilds ==
    RunComplete =>
       /\ \A key \in DatasetKeys :
             /\ (SrcCsv(disk, key) # 0 /\ disk.bronze[key] # 0) =>
                   disk.bronzeStamp[key] = SrcCsv(disk, key)
             /\ (disk.bronze[key] # 0 /\ disk.silver[key] # 0) =>
                   disk.silverStamp[key] = disk.bronzeStamp[key]
       /\ \A p \in Partitions :
             disk.gold[p] # 0 => disk.goldInput[p] = disk.silver[p[1]]

\* the force flag of the bronze and of the silver stage for the dataset
BronzeForced(key) ==
    IF dataset_force_flags(key).is_rolling THEN FORCE_BRONZE_ROLLING ELSE FORCE_BRONZE_STATIC

SilverForced(key) ==
    IF dataset_force_flags(key).is_rolling THEN FORCE_SILVER_ROLLING ELSE FORCE_SILVER_STATIC

\* the item of the dataset in the manifest of a stage
StageItem(res, name, key) ==
    LET items == Rows(res.manifest[name])
    IN  items[CHOOSE i \in 1..Len(items) : items[i].key = key]

\* the step of that name is taken
TakeStep(name) == AtStep(name) /\ run'.id = run.id /\ run'.next # run.next

\* C19: without a force flag, the bronze stage run on a dataset whose source
\* file is the one recorded in its bronze stamp reports skipped_unchanged and
\* writes neither bronze files nor stamp, and the silver stage that follows
\* does the same with the silver files and stamp.
C19_UnchangedIsSkipped ==
    [][ /\ TakeStep("bronze") =>
             \A key \in DatasetKeys :
                (/\ ~BronzeForced(key)
                 /\ SrcCsv(disk, key) # 0
                 /\ disk.bronzeStamp[key] = SrcCsv(disk, key)) =>
                    /\ disk'.bronze[key] = disk.bronze[key]
                    /\ disk'.bronzeStamp[key] = disk.bronzeStamp[key]
                    /\ results'.manifest["bronze"] # NoFile
                    /\ StageItem(results', "bronze", key).status = "skipped_unchanged"
        /\ TakeStep("silver") =>
             \A key \in DatasetKeys :
                (/\ ~SilverForced(key)
                 /\ disk.bronze[key] # 0
                 /\ disk.silverStamp[key] = disk.bronzeStamp[key]) =>
                    /\ disk'.silver[key] = disk.silver[key]
                    /\ disk'.silverStamp[key] = disk.silverStamp[key]
                    /\ StageItem(results', "silver", key).status = "skipped_unchanged"
      ]_vars

\* the second run found the source of the static dataset unchanged: both
\* stages skipped it and its bronze and silver files are those of the first
C19_Witness ==
    /\ stage = "run" /\ run.id = 2
    /\ results.manifest["bronze"] # NoFile /\ results.manifest["silver"] # NoFile
    /\ StageItem(results, "bronze", "gbg_skaters_hist_zip").status = "skipped_unchanged"
    /\ StageItem(results, "silver", "gbg_skaters_hist_zip").status = "skipped_unchanged"
    /\ disk.bronze["gbg_skaters_hist_zip"] = 1
    /\ disk.bronzeStamp["gbg_skaters_hist_zip"] = 1
    /\ disk.silver["gbg_skaters_hist_zip"] = 1
    /\ disk.silverStamp["gbg_skaters_hist_zip"] = 1

(***************************************************************************)
(* Properties of the silver stage.                                         *)
(***************************************************************************)
\* character k (1-based) of the text g padded with zeros on the left to ten
PaddedChar(g, k) ==
    IF Len(g) >= 10 THEN g[k]
    ELSE IF k <= 10 - Len(g) THEN "0" ELSE g[k - (10 - Len(g))]

\* the part was standardized for a per-game dataset that has a game id
StdPerGame ==
    /\ stage = "silver_part"
    /\ StartsWithGbg(bronzeDf.dataset_key)
    /\ "gameid" \in bronzeDf.columns

RecognizedRids ==
    {bronzeDf.rows[i].rid : i \in {i \in 1..Len(bronzeDf.rows) :
        /\ ~IsNull(bronzeDf.rows[i].situation)
        /\ Strip(Val(bronzeDf.rows[i].situation))
              \in KEEP_SITUATIONS \cup {<<"5", "o", "n", "5">>}}}

\* the rows of the part are not filtered by game type
NoRsFilter ==
    ~StartsWithGbg(bronzeDf.dataset_key) \/ "gameid" \notin bronzeDf.columns

\* C21: after standardization of a frame with a situation column every row
\* has a situation of the fixed set and none has the legacy tag; where no
\* game-type filter applies the rows kept are exactly those whose tag was in
\* the set or the legacy tag; and the file under situation=X holds the kept
\* rows of situation X and no other row.
C21_SituationNormalized ==
    (stage = "silver_part" /\ "situation" \in bronzeDf.columns) =>
       LET out == Rows(silverDf)
       IN  /\ \A i \in 1..Len(out) :
                /\ Val(out[i].situation) \in KEEP_SITUATIONS
                /\ Val(out[i].situation) # <<"5", "o", "n", "5">>
                /\ out[i].rid \in RecognizedRids
           /\ NoRsFilter => {out[i].rid : i \in 1..Len(out)} = RecognizedRids
           /\ \A d \in DOMAIN silverOut :
                /\ d \in KEEP_SITUATIONS
                /\ \A j \in 1..Len(silverOut[d]) : Val(silverOut[d][j].situation) = d
                /\ {silverOut[d][j].rid : j \in 1..Len(silverOut[d])}
                      = {out[i].rid : i \in {i \in 1..Len(out) : Val(out[i].situation) = d}}
           /\ \A i \in 1..Len(out) : Val(out[i].situation) \in DOMAIN silverOut

\* a part with a row of the legacy tag and a row of an unknown tag: the first
\* is kept as 5v5 and written under situation=5v5, the second is dropped
C21_Witness ==
    /\ stage = "silver_part" /\ "situation" \in bronzeDf.columns
    /\ Len(bronzeDf.rows) = 2
    /\ bronzeDf.rows[1].situation = Some(<<"5", "o", "n", "5">>)
    /\ bronzeDf.rows[2].situation = Some(<<"o", "t", "h", "e", "r">>)
    /\ Len(Rows(silverDf)) = 1
    /\ Rows(silverDf)[1].situation = Some(<<"5", "v", "5">>)
    /\ DOMAIN silverOut = {<<"5", "v", "5">>}

(***************************************************************************)
(* Properties of canon_team.                                               *)
(***************************************************************************)
\* C22: canon_team applied to its own result returns that result.
C22_CanonIdempotent ==
    (stage = "canon_team" /\ Len(fnOut) = 2) => fnOut[2] = fnOut[1]

\* the same for the values whose only white space is the blank
CanonIdempotentOnBlanks ==
    (stage = "canon_team" /\ Len(fnOut) = 2 /\ ~IsNull(fnIn)
        /\ \A i \in 1..Len(Val(fnIn)) : Val(fnIn)[i] # "\t") => fnOut[2] = fnOut[1]

\* C23: canon_team returns a text for every value, a missing one included.
C23_CanonReturnsText ==
    (stage = "canon_team" /\ Len(fnOut) >= 1) => ~IsNull(fnOut[1])

(***************************************************************************)
(* Properties of decode_lineid.                                            *)
(***************************************************************************)
\* the matches of the id pattern in the value, left to right
MatchesOf(x) == IF IsNull(x) THEN <<>> ELSE FindAll(RemoveDotZero(Val(x)))

\* the position of the first match equal to id
FirstAt(ids, id) == CHOOSE i \in 1..Len(ids) : ids[i] = id /\ \A j \in 1..(i - 1) : ids[j] # id

\* C24: the list decode_lineid returns holds ids matched in the value, no id
\* twice, in the order of their first appearance, at most three of them, and
\* leaves out a matched id only when three earlier ones fill it; for a
\* missing or empty value it is empty.
C24_DecodeDistinctOrdered ==
    (stage = "decode_lineid" /\ fnOut # <<>>) =>
       LET out == fnOut[1]
           ids == MatchesOf(fnIn)
       IN  /\ Len(out) <= 3
           /\ \A k \in 1..Len(out) : InSeq(out[k], ids)
           /\ \A j, k \in 1..Len(out) : j < k => FirstAt(ids, out[j]) < FirstAt(ids, out[k])
           /\ \A i \in 1..Len(ids) :
                \/ InSeq(ids[i], out)
                \/ Len(out) = 3 /\ FirstAt(ids, out[3]) < FirstAt(ids, ids[i])
           /\ (IsNull(fnIn) \/ fnIn = Some(<<>>)) => out = <<>>

\* a value naming four players, one of them twice at the front
C24_Witness ==
    /\ stage = "decode_lineid"
    /\ fnIn = Some(IdB \o IdA \o IdB \o IdC)
    /\ fnOut = << <<IdB, IdA, IdC>> >>

(***************************************************************************)
(* Independence of the gold partitions.                                    *)
(***************************************************************************)
\* gold_out_dir: GOLD_DIR / dataset_key / situation=<situation> / season=<season>
gold_out_dir(dataset_key, situation, season) == <<dataset_key, situation, season>>

\* the (dataset, situation, season) triples of the gold stage
GoldTriples ==
    {<<GBG_GOLD_SPECS[i], sit, season>> :
        i \in 1..Len(GBG_GOLD_SPECS), sit \in KEEP_SITUATIONS, season \in Seasons}

\* the body of the season loop for one partition, on its own
gold_partition(dk, p, fails, id) ==
    LET key == p[1]
        is_rolling == SourceType(key) = "rolling"
        force == IF is_rolling THEN FORCE_GOLD_ROLLING ELSE FORCE_GOLD_STATIC
        need == dk.gold[p] = 0 \/ should_refresh_gold_partition(p[2], is_rolling, force)
    IN  IF dk.silver[key] = 0 \/ ~need THEN dk
        ELSE IF p \in fails THEN remove_partition(dk, p)
        ELSE rebuild_partition(dk, key, p, id)

RECURSIVE gold_in_order(_, _, _, _)
\* the partitions processed one after the other in the order given
gold_in_order(order, dk, fails, id) ==
    IF order = <<>> THEN dk
    ELSE gold_in_order(Tail(order), gold_partition(dk, Head(order), fails, id), fails, id)

\* every order of the partitions
PartitionOrders ==
    {o \in [1..Cardinality(Partitions) -> Partitions] :
        \A i, j \in 1..Cardinality(Partitions) : i # j => o[i] # o[j]}

\* C25: distinct partitions have distinct output directories, and the gold
\* files and stamps after the gold stage are those that processing the
\* partitions one by one gives in every order, with the same computations
\* failing: no partition's result depends on another partition's output.
C25_OrderIndependent ==
    /\ [](\A t, u \in GoldTriples :
             t # u => gold_out_dir(t[1], t[2], t[3]) # gold_out_dir(u[1], u[2], u[3]))
    /\ [][ GoldStep =>
             LET fails == {p \in Partitions : disk.silver[p[1]] # 0 /\ disk'.gold[p] = 0}
             IN  \A o \in PartitionOrders : gold_in_order(o, disk, fails, run.id) = disk'
         ]_vars

\* a second run in which one partition was built for the first time, one
\* was skipped and one was recomputed
C25_Witness ==
    /\ stage = "run" /\ run.id = 2 /\ results.manifest["gold"] # NoFile
    /\ disk.gold[<<"gbg_skaters_hist_zip", PrevSeason>>] = 2
    /\ disk.gold[<<"gbg_skaters_hist_zip", CurSeason>>] = 1
    /\ disk.gold[<<"gbg_teams_all", CurSeason>>] = 2
    /\ GoldItem(results, "gbg_skaters_hist_zip").skipped = 1
    /\ GoldItem(results, "gbg_skaters_hist_zip").built = 1

(***************************************************************************)
(* Properties of download_stream.                                          *)
(***************************************************************************)
DlDone == stage = "download_stream" /\ fnOut.pc = "done"

LinesGoldBuilt == stage = "lines_gold"
LinesGoldRows == Rows(linesGold)

\* the gold rows the query gives when the scan hands the rows in file order
FileOrderGold ==
    LinesGoldQuery(Scan(GameRows, [i \in 1..Len(GameRows) |-> i]), CurSeason)

\* C27: no two rows that reach the gold builder share the same (entity id,
\* game id, situation), and the trailing sums and game counts of every gold
\* row are the same for every physical order of the rows it reads
C27_UniqueRowsOrderFree ==
    /\ LinesBuilt =>
          \A i, j \in 1..Len(GameRows) :
              (/\ GameRows[i].combo_key_team = GameRows[j].combo_key_team
               /\ GameRows[i].gameid = GameRows[j].gameid
               /\ GameRows[i].situation = GameRows[j].situation) => i = j
    /\ LinesGoldBuilt => LinesGoldRows = FileOrderGold

\* the decorated row of the input row rid
GameRowOf(rid) == Decorate(lines[rid])

\* C28: every trailing and season-to-date window of a gold line-game row
\* aggregates rows of one line combination of one team: a row with an empty
\* combination key shares no window with a row of another team or of
\* another composite line id
C28_WindowOfOneCombination ==
    LinesGoldBuilt =>
        \A g \in LinesGoldRows :
            \A a, b \in g.std_frame \cup UNION {g.frame[w] : w \in Windows} :
                GameRowOf(a).combo_key_team = <<>> =>
                    /\ GameRowOf(a).team = GameRowOf(b).team
                    /\ GameRowOf(a).lineid = GameRowOf(b).lineid

(***************************************************************************)
(* Part files after rebuilds.                                              *)
(***************************************************************************)
\* C29: after any sequence of bronze and silver rebuilds the persisted bronze
\* and silver directories hold only the part files of the latest rebuild
\* (the files of the staging directory): no part file of an earlier build
\* remains to be read by the next stage
C29_OnlyLatestParts ==
    stage = "part_files" =>
        /\ DOMAIN tree.bronze = DOMAIN tree.bronze_stage
        /\ \A p \in DOMAIN tree.bronze : tree.bronze[p] = tree.bronze_stage[p]
        /\ DOMAIN tree.silver = DOMAIN tree.silver_stage
        /\ \A p \in DOMAIN tree.silver : tree.silver[p] = tree.silver_stage[p]

(***************************************************************************)
(* The regular-season predicate of the data frames and of the SQL.         *)
(***************************************************************************)
RsApplied == stage = "rs_predicate" /\ fnOut # <<>>

====
